---- MODULE Spec2Model ----
(***************************************************************************)
(* The watch / batch / filter pipeline of devd: the moddwatch watcher      *)
(* (batch, mkmod, Watcher.send, Watcher.Stop, Watch), the filter package   *)
(* and the doublestar matcher it relies on.                                *)
(*                                                                         *)
(* Go strings are modelled as sequences of one-character strings, so that  *)
(* splitting, prefix tests, matching and sorting are computed character by *)
(* character as the code computes them.  Time is counted in seconds.       *)
(***************************************************************************)
EXTENDS Integers, Sequences, FiniteSets, TLC

(***************************************************************************)
(* Bounds of the model.                                                    *)
(***************************************************************************)
\* events buffered in the event channel (the code's channel holds 4096)
MaxQueue == 1
\* goroutines that call Watcher.Stop
NStoppers == 2
\* raw events delivered by the subscription over one run of the watcher
MaxEvents == 1
\* raw events delivered over a run in which the cycles of the watcher are logged
MaxCycleEvents == 2
\* length of the file lists the functions under check are called with
MaxFiles == 2
\* length of the pattern lists the functions under check are called with
MaxPatterns == 2
\* the path components of a name handed to Match
MaxComponents == 3

(***************************************************************************)
(* Program constants.                                                      *)
(***************************************************************************)
\* const MaxLullWait = time.Second * 8
MaxLullWait == 8
\* modchan := make(chan *moddwatch.Mod, 1)
ModchCap == 1

(***************************************************************************)
(* Strings.                                                                *)
(***************************************************************************)
\* a local variable: Body applied to the value of e, which is computed once
With(e, Body(_)) == CHOOSE r \in {Body(x) : x \in {e}} : TRUE

\* byte values of the characters that occur in the modelled paths and patterns
Ascii ==
    ("*" :> 42) @@ ("," :> 44) @@ ("-" :> 45) @@ ("." :> 46) @@ ("/" :> 47)
    @@ ("?" :> 63) @@ ("[" :> 91) @@ ("\\" :> 92) @@ ("]" :> 93) @@ ("^" :> 94)
    @@ ("a" :> 97) @@ ("b" :> 98) @@ ("c" :> 99) @@ ("e" :> 101) @@ ("j" :> 106)
    @@ ("l" :> 108) @@ ("r" :> 114)
    @@ ("s" :> 115) @@ ("x" :> 120) @@ ("{" :> 123) @@ ("}" :> 125)

\* Go's string comparison s < t: bytewise lexicographic
RECURSIVE StrLess(_, _)
StrLess(s, t) ==
    IF t = <<>> THEN FALSE
    ELSE IF s = <<>> THEN TRUE
    ELSE IF Ascii[Head(s)] < Ascii[Head(t)] THEN TRUE
    ELSE IF Ascii[Head(s)] > Ascii[Head(t)] THEN FALSE
    ELSE StrLess(Tail(s), Tail(t))

\* sort.Strings applied to the keys of a map (the keys are distinct)
RECURSIVE SortStrings(_)
SortStrings(S) ==
    IF S = {} THEN <<>>
    ELSE With(CHOOSE x \in S : \A y \in S \ {x} : StrLess(x, y), LAMBDA m :
             <<m>> \o SortStrings(S \ {m}))

\* the elements of a slice
Range(s) == {s[i] : i \in 1..Len(s)}

\* s[from:] with a 0-based offset, as in Go
Drop(s, n) == SubSeq(s, n + 1, Len(s))

\* s[:n] with a 0-based end, as in Go
Take(s, n) == SubSeq(s, 1, n)

\* the slices of at most n elements of S
Slices(S, n) == UNION {[1..k -> S] : k \in 0..n}

(***************************************************************************)
(* The files of the watched tree and the raw events of the subscription.   *)
(***************************************************************************)
Root == <<"/", "r">>
FileCss == <<"/", "r", "/", "a", ".", "c", "s", "s">>
FileJs == <<"/", "r", "/", "b", ".", "j", "s">>
Paths == {FileCss, FileJs}

Kinds == {"Create", "Remove", "Write", "Rename"}
Events == [kind : Kinds, path : Paths]

\* a nil *Mod, and the nil event read from a closed event channel
Nil == [nil |-> TRUE]

(***************************************************************************)
(* Mod and mkmod.                                                          *)
(***************************************************************************)
\* the keys are returned in the order the range over the map produced them
_keysUnsorted(m) ==
    IF Cardinality(m) > 0
    THEN With(SortStrings(m), LAMBDA keys :
             [i \in 1..Len(keys) |-> keys[Len(keys) + 1 - i]])
    ELSE <<>>

_keys(m) == IF Cardinality(m) > 0 THEN SortStrings(m) ELSE <<>>

Empty(mod) == ~ ((Len(mod.Changed) + Len(mod.Deleted) + Len(mod.Added)) > 0)

\* the deleted files are in the list too
AllWithDeleted(mod) == _keys(Range(mod.Changed) \cup Range(mod.Added) \cup Range(mod.Deleted))

\* Mod.All: the files changed or added
All(mod) == _keys(Range(mod.Changed) \cup Range(mod.Added))

\* for k := range renamed
RECURSIVE mkmodRenamed(_, _, _)
mkmodRenamed(exists, todo, acc) ==
    IF todo = {} THEN acc
    ELSE With(CHOOSE x \in todo : TRUE, LAMBDA k :
         With(IF k \in exists
              THEN [acc EXCEPT !.added = @ \cup {k}]
              ELSE [acc EXCEPT !.removed = @ \cup {k}], LAMBDA next :
             mkmodRenamed(exists, todo \ {k}, next)))

\* the body of: for k := range added
mkmodAddedStepKeep(exists, k, acc) ==
    IF k \in exists
    THEN [acc EXCEPT !.changed = @ \ {k}, !.removed = @ \ {k}]
    ELSE acc

\* a path that exists is left in changed and removed
mkmodAddedStepNoStrike(exists, k, acc) ==
    IF k \in exists
    THEN acc
    ELSE [acc EXCEPT !.added = @ \ {k}, !.removed = @ \ {k}, !.changed = @ \ {k}]

\* a path that does not exist empties the map added
mkmodAddedStepClear(exists, k, acc) ==
    IF k \in exists
    THEN [acc EXCEPT !.changed = @ \ {k}, !.removed = @ \ {k}]
    ELSE [acc EXCEPT !.added = {}, !.removed = @ \ {k}, !.changed = @ \ {k}]

mkmodAddedStep(exists, k, acc) ==
    IF k \in exists
    THEN [acc EXCEPT !.changed = @ \ {k}, !.removed = @ \ {k}]
    ELSE [acc EXCEPT !.added = @ \ {k}, !.removed = @ \ {k}, !.changed = @ \ {k}]

\* the loop over added is not run
mkmodAddedNone(exists, todo, acc) == acc

\* for k := range added (an entry deleted during the range is not visited later)
RECURSIVE mkmodAdded(_, _, _)
mkmodAdded(exists, todo, acc) ==
    IF todo \cap acc.added = {} THEN acc
    ELSE With(CHOOSE x \in todo \cap acc.added : TRUE, LAMBDA k :
         With(mkmodAddedStep(exists, k, acc), LAMBDA next :
             mkmodAdded(exists, todo \ {k}, next)))

\* the loop over removed is not run
mkmodRemovedNone(exists, todo, acc) == acc

\* a removed path that does not exist is left in changed
RECURSIVE mkmodRemovedKeepChanged(_, _, _)
mkmodRemovedKeepChanged(exists, todo, acc) ==
    IF todo \cap acc.removed = {} THEN acc
    ELSE With(CHOOSE x \in todo \cap acc.removed : TRUE, LAMBDA k :
         With(IF k \in exists
              THEN [acc EXCEPT !.removed = @ \ {k}]
              ELSE [acc EXCEPT !.added = @ \ {k}], LAMBDA next :
             mkmodRemovedKeepChanged(exists, todo \ {k}, next)))

\* a removed path that exists is left in removed
RECURSIVE mkmodRemovedKeepExisting(_, _, _)
mkmodRemovedKeepExisting(exists, todo, acc) ==
    IF todo \cap acc.removed = {} THEN acc
    ELSE With(CHOOSE x \in todo \cap acc.removed : TRUE, LAMBDA k :
         With(IF k \in exists
              THEN acc
              ELSE [acc EXCEPT !.added = @ \ {k}, !.changed = @ \ {k}], LAMBDA next :
             mkmodRemovedKeepExisting(exists, todo \ {k}, next)))

\* for k := range removed
RECURSIVE mkmodRemoved(_, _, _)
mkmodRemoved(exists, todo, acc) ==
    IF todo \cap acc.removed = {} THEN acc
    ELSE With(CHOOSE x \in todo \cap acc.removed : TRUE, LAMBDA k :
         With(IF k \in exists
              THEN [acc EXCEPT !.removed = @ \ {k}]
              ELSE [acc EXCEPT !.added = @ \ {k}, !.changed = @ \ {k}], LAMBDA next :
             mkmodRemoved(exists, todo \ {k}, next)))

\* a rename is resolved by the existence of the path alone
mkmodRenamedAllAdded(exists, a, r, c, rn) ==
    [added |-> a \cup rn, removed |-> r, changed |-> c]

mkmodRenamedLoop(exists, a, r, c, rn) ==
    mkmodRenamed(exists, rn, [added |-> a, removed |-> r, changed |-> c])

\* the maps added, removed, changed as the three loops of mkmod leave them: the
\* maps are the caller's, and mkmod writes to them
mkmodMaps(exists, a, r, c, rn) ==
    With(mkmodRenamedLoop(exists, a, r, c, rn), LAMBDA a1 :
    With(mkmodAdded(exists, a1.added, a1), LAMBDA a2 :
        mkmodRemoved(exists, a2.removed, a2)))

\* ret.Added = _keys(added); ret.Changed = _keys(changed); ret.Deleted = _keys(removed)
mkmodRet(maps) ==
    [Added |-> _keys(maps.added),
     Changed |-> _keys(maps.changed),
     Deleted |-> _keys(maps.removed)]

mkmod(exists, a, r, c, rn) ==
    With(mkmodMaps(exists, a, r, c, rn), LAMBDA a3 : mkmodRet(a3))

\* The iteration order of a Go map is unspecified.  The loops above visit the
\* keys in one order; the loops below visit them in a given order, a sequence
\* that lists every path once.
RangeOrders == {o \in [1..Cardinality(Paths) -> Paths] : Range(o) = Paths}

\* the key a range over the map with keys S visits first under order
FirstIn(order, S) ==
    order[CHOOSE i \in 1..Len(order) :
              order[i] \in S /\ \A j \in 1..(i - 1) : order[j] \notin S]

\* for k := range renamed, visiting the keys in the given order
RECURSIVE mkmodRenamedIn(_, _, _, _)
mkmodRenamedIn(order, exists, todo, acc) ==
    IF todo = {} THEN acc
    ELSE With(FirstIn(order, todo), LAMBDA k :
         With(IF k \in exists
              THEN [acc EXCEPT !.added = @ \cup {k}]
              ELSE [acc EXCEPT !.removed = @ \cup {k}], LAMBDA next :
             mkmodRenamedIn(order, exists, todo \ {k}, next)))

\* for k := range added, visiting the keys in the given order
RECURSIVE mkmodAddedIn(_, _, _, _)
mkmodAddedIn(order, exists, todo, acc) ==
    IF todo \cap acc.added = {} THEN acc
    ELSE With(FirstIn(order, todo \cap acc.added), LAMBDA k :
         With(mkmodAddedStep(exists, k, acc), LAMBDA next :
             mkmodAddedIn(order, exists, todo \ {k}, next)))

\* for k := range removed, visiting the keys in the given order
RECURSIVE mkmodRemovedIn(_, _, _, _)
mkmodRemovedIn(order, exists, todo, acc) ==
    IF todo \cap acc.removed = {} THEN acc
    ELSE With(FirstIn(order, todo \cap acc.removed), LAMBDA k :
         With(IF k \in exists
              THEN [acc EXCEPT !.removed = @ \ {k}]
              ELSE [acc EXCEPT !.added = @ \ {k}, !.changed = @ \ {k}], LAMBDA next :
             mkmodRemovedIn(order, exists, todo \ {k}, next)))

\* mkmod when the three range loops visit their keys in the orders o1, o2, o3
mkmodIn(o1, o2, o3, exists, a, r, c, rn) ==
    With(mkmodRenamedIn(o1, exists, rn, [added |-> a, removed |-> r, changed |-> c]),
         LAMBDA a1 :
    With(mkmodAddedIn(o2, exists, a1.added, a1), LAMBDA a2 :
    With(mkmodRemovedIn(o3, exists, a2.removed, a2), LAMBDA a3 : mkmodRet(a3))))

(***************************************************************************)
(* doublestar: Match.  A result is a record [m, err].                      *)
(***************************************************************************)
\* strings.IndexRune: 0-based index of the first r in s, or -1
IndexRune(s, r) ==
    With(s, LAMBDA str :
    With({i \in 1..Len(str) : str[i] = r}, LAMBDA found :
        IF found = {} THEN -1
        ELSE (CHOOSE i \in found : \A j \in found : i <= j) - 1))

RECURSIVE indexRuneWithEscaping(_, _)
indexRuneWithEscaping(s, r) ==
    With(IndexRune(s, r), LAMBDA end :
        IF end = -1 THEN -1
        ELSE IF end > 0 /\ s[end] = "\\"
        THEN With(indexRuneWithEscaping(Drop(s, end + 1), r), LAMBDA e2 :
                 IF e2 # -1 THEN e2 + end + 1 ELSE -1)
        ELSE end)

\* the for loop of splitPathOnSeparator, from offset start
RECURSIVE splitLoop(_, _, _)
splitLoop(path, separator, start) ==
    IF ~ (start < Len(path)) THEN <<>>
    ELSE With(indexRuneWithEscaping(Drop(path, start), separator), LAMBDA e :
         With(IF e = -1 THEN Len(path) ELSE e + start, LAMBDA end :
             <<SubSeq(path, start + 1, end)>> \o splitLoop(path, separator, end + 1)))

splitPathOnSeparator(path, separator) ==
    IF IndexRune(path, separator) = -1 THEN <<path>>
    ELSE splitLoop(path, separator, 0)

MTrue == [m |-> TRUE, err |-> FALSE]
MFalse == [m |-> FALSE, err |-> FALSE]
ErrBadPattern == [m |-> FALSE, err |-> TRUE]

\* a class loop that reports no malformed range
classLoopLax(classRunes, classIdx, nameRune, matchClass) ==
    [m |-> \E i \in 1..Len(classRunes) : classRunes[i] = nameRune, err |-> FALSE]

\* the character-class loop of matchComponent: classIdx is 0-based
RECURSIVE classLoop(_, _, _, _)
classLoop(classRunes, classIdx, nameRune, matchClass) ==
    LET n == Len(classRunes)
    IN  IF ~ (classIdx < n) THEN [m |-> matchClass, err |-> FALSE]
        ELSE
        LET low0 == classRunes[classIdx + 1]
            i1 == classIdx + 1
            lowEsc == low0 = "\\"
            low == IF lowEsc /\ i1 < n THEN classRunes[i1 + 1] ELSE low0
            i2 == IF lowEsc THEN i1 + 1 ELSE i1
            hasRange == i2 < n /\ classRunes[i2 + 1] = "-"
            i3 == i2 + 1
            high0 == IF i3 < n THEN classRunes[i3 + 1] ELSE low
            i4 == i3 + 1
            highEsc == high0 = "\\"
            high == IF ~ hasRange THEN low
                    ELSE IF highEsc /\ i4 < n THEN classRunes[i4 + 1] ELSE high0
            i5 == IF ~ hasRange THEN i2 ELSE IF highEsc THEN i4 + 1 ELSE i4
        IN  IF low0 = "-" THEN ErrBadPattern
            ELSE IF lowEsc /\ ~ (i1 < n) THEN ErrBadPattern
            ELSE IF hasRange /\ i3 >= n THEN ErrBadPattern
            ELSE IF hasRange /\ high0 = "-" THEN ErrBadPattern
            ELSE IF hasRange /\ highEsc /\ ~ (i4 < n) THEN ErrBadPattern
            ELSE classLoop(classRunes, i5, nameRune,
                     matchClass \/ (Ascii[low] <= Ascii[nameRune]
                                    /\ Ascii[nameRune] <= Ascii[high]))

RECURSIVE matchComponent(_, _)
RECURSIVE matchLoop(_, _)
RECURSIVE matchStar(_, _, _)
RECURSIVE matchOptions(_, _, _, _)

\* for ; nameIdx < nameLen; nameIdx += nameAdj  (errors of the inner match are dropped)
matchStar(pattern, name, nameIdx) ==
    IF ~ (nameIdx < Len(name)) THEN MFalse
    ELSE IF matchComponent(pattern, Drop(name, nameIdx)).m THEN MTrue
    ELSE matchStar(pattern, name, nameIdx + 1)

\* for _, o := range options
matchOptions(options, i, rest, name) ==
    IF i > Len(options) THEN MFalse
    ELSE With(matchComponent(options[i] \o rest, name), LAMBDA r :
             IF r.err THEN ErrBadPattern
             ELSE IF r.m THEN MTrue
             ELSE matchOptions(options, i + 1, rest, name))

\* the main loop of matchComponent on pattern[patIdx:] and name[nameIdx:]
matchLoop(pattern, name) ==
    IF pattern = <<>> \/ name = <<>>
    THEN IF pattern = <<>> /\ name = <<>> THEN MTrue
         ELSE IF (name = <<>> /\ pattern = <<"*">>) \/ pattern = <<"*", "*">> THEN MTrue
         ELSE MFalse
    ELSE
    LET patRune == Head(pattern)
        nameRune == Head(name)
        p1 == Tail(pattern)
    IN  IF patRune = "\\"
        THEN IF p1 = <<>> THEN ErrBadPattern
             ELSE IF Head(p1) = nameRune THEN matchLoop(Tail(p1), Tail(name))
             ELSE MFalse
        ELSE IF patRune = "*"
        THEN IF p1 = <<>> THEN MTrue ELSE matchStar(p1, name, 0)
        ELSE IF patRune = "["
        THEN LET endClass == indexRuneWithEscaping(p1, "]")
                 classRunes == Take(p1, endClass)
                 neg == classRunes[1] = "^"
                 c == classLoop(classRunes, IF neg THEN 1 ELSE 0, nameRune, FALSE)
             IN  IF endClass = -1 THEN ErrBadPattern
                 ELSE IF ~ (Len(classRunes) > 0) THEN ErrBadPattern
                 ELSE IF c.err THEN ErrBadPattern
                 ELSE IF c.m = neg THEN MFalse
                 ELSE matchLoop(Drop(p1, endClass + 1), Tail(name))
        ELSE IF patRune = "{"
        THEN LET endOptions == indexRuneWithEscaping(p1, "}")
             IN  IF endOptions = -1 THEN ErrBadPattern
                 ELSE matchOptions(splitPathOnSeparator(Take(p1, endOptions), ","), 1,
                                   Drop(p1, endOptions + 1), name)
        ELSE IF patRune = "?" \/ patRune = nameRune
        THEN matchLoop(Tail(pattern), Tail(name))
        ELSE MFalse

matchComponent(pattern, name) ==
    IF pattern = <<>> /\ name = <<>> THEN MTrue
    ELSE IF pattern = <<>> THEN MFalse
    ELSE IF name = <<>> /\ pattern # <<"*">> THEN MFalse
    ELSE matchLoop(pattern, name)

RECURSIVE doMatching(_, _)
RECURSIVE doubleStarLoop(_, _, _)

\* the rest of the pattern is tried at the current name component only
doubleStarLoopOnce(patternComponents, nameComponents, nameIdx) ==
    IF ~ (nameIdx < Len(nameComponents)) THEN MFalse
    ELSE IF doMatching(patternComponents, Drop(nameComponents, nameIdx)).m THEN MTrue
    ELSE MFalse

\* for ; nameIdx < nameLen; nameIdx++  (errors of the inner match are dropped)
doubleStarLoop(patternComponents, nameComponents, nameIdx) ==
    IF ~ (nameIdx < Len(nameComponents)) THEN MFalse
    ELSE IF doMatching(patternComponents, Drop(nameComponents, nameIdx)).m THEN MTrue
    ELSE doubleStarLoop(patternComponents, nameComponents, nameIdx + 1)

doMatching(patternComponents, nameComponents) ==
    IF patternComponents = <<>> /\ nameComponents = <<>> THEN MTrue
    ELSE IF patternComponents = <<>> \/ nameComponents = <<>> THEN MFalse
    ELSE IF Head(patternComponents) = <<"*", "*">>
    THEN IF Tail(patternComponents) = <<>> THEN MTrue
         ELSE doubleStarLoop(Tail(patternComponents), nameComponents, 0)
    ELSE With(matchComponent(Head(patternComponents), Head(nameComponents)),
              LAMBDA r :
                  IF ~ r.m \/ r.err THEN r
                  ELSE IF Tail(patternComponents) = <<>> \/ Tail(nameComponents) = <<>>
                  THEN IF Tail(patternComponents) = <<>> /\ Tail(nameComponents) = <<>>
                       THEN MTrue ELSE MFalse
                  ELSE doMatching(Tail(patternComponents), Tail(nameComponents)))

Match(pattern, name) ==
    With(splitPathOnSeparator(pattern, "/"), LAMBDA patternComponents :
        With(splitPathOnSeparator(name, "/"), LAMBDA nameComponents :
            doMatching(patternComponents, nameComponents)))

(***************************************************************************)
(* filter: MatchAny, File, Files.                                          *)
(***************************************************************************)
\* filepath.ToSlash: the separator of the platform is '/', the path is returned as is
ToSlash(path) == path

\* a pattern whose match fails is skipped
RECURSIVE MatchAnySkip(_, _)
MatchAnySkip(path, patterns) ==
    IF patterns = <<>> THEN MFalse
    ELSE With(Match(Head(patterns), ToSlash(path)), LAMBDA r :
             IF r.m /\ ~ r.err THEN MTrue
             ELSE MatchAnySkip(path, Tail(patterns)))

RECURSIVE MatchAny(_, _)
MatchAny(path, patterns) ==
    IF patterns = <<>> THEN MFalse
    ELSE With(Match(Head(patterns), ToSlash(path)), LAMBDA r :
             IF r.err THEN ErrBadPattern
             ELSE IF r.m THEN MTrue
             ELSE MatchAny(path, Tail(patterns)))

\* the result is [path, err]; the empty path is the code's ""
File(path, includePatterns, excludePatterns) ==
    With(MatchAny(path, excludePatterns), LAMBDA ex :
        IF ex.err THEN [path |-> <<>>, err |-> TRUE]
        ELSE IF ex.m THEN [path |-> <<>>, err |-> FALSE]
        ELSE With(MatchAny(path, includePatterns), LAMBDA inc :
                 IF inc.err THEN [path |-> <<>>, err |-> TRUE]
                 ELSE IF inc.m THEN [path |-> path, err |-> FALSE]
                 ELSE [path |-> <<>>, err |-> FALSE]))

RECURSIVE FilesLoop(_, _, _)
FilesLoop(files, includePatterns, excludePatterns) ==
    IF files = <<>> THEN <<>>
    ELSE With(File(Head(files), includePatterns, excludePatterns), LAMBDA r :
             LET rest == FilesLoop(Tail(files), includePatterns, excludePatterns)
             IN  IF r.err \/ r.path = <<>> THEN rest ELSE <<r.path>> \o rest)

Files(files, includePatterns, excludePatterns) ==
    [files |-> FilesLoop(files, includePatterns, excludePatterns), err |-> FALSE]

\* Mod.Filter: the result is [mod, err]
Filter(mod, includes_, excludes_) ==
    With(Files(mod.Changed, includes_, excludes_), LAMBDA changed_ :
        IF changed_.err THEN [mod |-> Nil, err |-> TRUE]
        ELSE With(Files(mod.Deleted, includes_, excludes_), LAMBDA deleted_ :
            IF deleted_.err THEN [mod |-> Nil, err |-> TRUE]
            ELSE With(Files(mod.Added, includes_, excludes_), LAMBDA added_ :
                IF added_.err THEN [mod |-> Nil, err |-> TRUE]
                ELSE [mod |-> [Changed |-> changed_.files, Deleted |-> deleted_.files,
                               Added |-> added_.files],
                      err |-> FALSE])))

(***************************************************************************)
(* Mod.Join.                                                               *)
(***************************************************************************)
\* the second list is appended to the first
joinListsAppend(a, c) == a \o c

\* joinLists: the keys of the map the two lists are written to, sorted
joinLists(a, c) == SortStrings(Range(a) \cup Range(c))

\* Mod.Join
ModJoin(mod, c) ==
    [Changed |-> joinLists(mod.Changed, c.Changed),
     Deleted |-> joinLists(mod.Deleted, c.Deleted),
     Added |-> joinLists(mod.Added, c.Added)]

(***************************************************************************)
(* devd: shouldInclude and filterFiles, which filter the paths devd hands  *)
(* to livereload against the exclude patterns of the command line.         *)
(***************************************************************************)
\* strings.TrimPrefix
TrimPrefix(s, prefix) ==
    IF Len(s) >= Len(prefix) /\ Take(s, Len(prefix)) = prefix THEN Drop(s, Len(prefix))
    ELSE s

\* a pattern whose match fails excludes the file
RECURSIVE shouldIncludeStrict(_, _)
shouldIncludeStrict(file, excludePatterns) ==
    IF excludePatterns = <<>> THEN TRUE
    ELSE With(Match(Head(excludePatterns), file), LAMBDA r :
             IF r.err THEN FALSE
             ELSE IF r.m THEN FALSE
             ELSE shouldIncludeStrict(file, Tail(excludePatterns)))

\* for _, pattern := range excludePatterns: an error is logged and the loop goes on
RECURSIVE shouldInclude(_, _)
shouldInclude(file, excludePatterns) ==
    IF excludePatterns = <<>> THEN TRUE
    ELSE With(Match(Head(excludePatterns), file), LAMBDA r :
             IF r.err THEN shouldInclude(file, Tail(excludePatterns))
             ELSE IF r.m THEN FALSE
             ELSE shouldInclude(file, Tail(excludePatterns)))

RECURSIVE filterFiles(_, _, _)
filterFiles(pathPrefix, files, excludePatterns) ==
    IF files = <<>> THEN <<>>
    ELSE With(TrimPrefix(Head(files), pathPrefix), LAMBDA relFile :
             LET rest == filterFiles(pathPrefix, Tail(files), excludePatterns)
             IN  IF shouldInclude(relFile, excludePatterns)
                 THEN <<Head(files)>> \o rest ELSE rest)

(***************************************************************************)
(* Path normalisation: isUnder, normPaths, Mod.normPaths.                  *)
(***************************************************************************)
\* strings.Split(s, "/")
RECURSIVE SplitSlash(_)
SplitSlash(s) ==
    With(s, LAMBDA str :
    With(IndexRune(str, "/"), LAMBDA i :
        IF i = -1 THEN <<str>> ELSE <<Take(str, i)>> \o SplitSlash(Drop(str, i + 1))))

\* strings.Join(comps, "/")
RECURSIVE JoinSlash(_)
JoinSlash(comps) ==
    With(comps, LAMBDA cs :
        IF cs = <<>> THEN <<>>
        ELSE IF Len(cs) = 1 THEN cs[1]
        ELSE cs[1] \o <<"/">> \o JoinSlash(Tail(cs)))

IsAbs(path) == path # <<>> /\ path[1] = "/"

\* the components filepath.Clean keeps: no empty one, no ".", ".." resolved
RECURSIVE CleanComps(_, _, _)
CleanComps(rooted, comps, out) ==
    IF comps = <<>> THEN out
    ELSE With(Head(comps), LAMBDA c :
         With(Tail(comps), LAMBDA rest :
         With(out, LAMBDA kept :
             IF c = <<>> \/ c = <<".">> THEN CleanComps(rooted, rest, kept)
             ELSE IF c = <<".", ".">>
             THEN IF kept # <<>> /\ kept[Len(kept)] # <<".", ".">>
                  THEN CleanComps(rooted, rest, Take(kept, Len(kept) - 1))
                  ELSE IF rooted THEN CleanComps(rooted, rest, kept)
                  ELSE CleanComps(rooted, rest, Append(kept, c))
             ELSE CleanComps(rooted, rest, Append(kept, c)))))

\* filepath.Clean
Clean(path) ==
    With(path, LAMBDA p :
    With(SplitSlash(p), LAMBDA split :
    With(CleanComps(IsAbs(p), split, <<>>), LAMBDA comps :
        IF IsAbs(p) THEN <<"/">> \o JoinSlash(comps)
        ELSE IF comps = <<>> THEN <<".">>
        ELSE JoinSlash(comps))))

\* os.Getwd of the devd process: devd passes it to Watch as the root
Getwd == Root

\* filepath.Abs
Abs(path) ==
    IF IsAbs(path) THEN Clean(path)
    ELSE With(Getwd \o <<"/">> \o path, LAMBDA joined : Clean(joined))

\* strings.Index(child, parent) == 0
HasPrefix(s, prefix) == Len(s) >= Len(prefix) /\ Take(s, Len(prefix)) = prefix

isUnder(parent, child) ==
    LET p == ToSlash(parent)
        c == ToSlash(child)
    IN  HasPrefix(c, p) /\ (Len(c) = Len(p) \/ c[Len(p) + 1] = "/")

\* length of the common prefix of two component lists
RECURSIVE CommonPrefix(_, _)
CommonPrefix(a, c) ==
    IF a = <<>> \/ c = <<>> \/ Head(a) # Head(c) THEN 0
    ELSE 1 + CommonPrefix(Tail(a), Tail(c))

\* filepath.Rel of two absolute paths: the result is [path, err]
Rel(basepath, targpath) ==
    With(Clean(basepath), LAMBDA base :
    With(Clean(targpath), LAMBDA targ :
    With(SplitSlash(base), LAMBDA bs :
    With(SplitSlash(targ), LAMBDA ts :
    With(CleanComps(TRUE, bs, <<>>), LAMBDA bc :
    With(CleanComps(TRUE, ts, <<>>), LAMBDA tc :
    With(CommonPrefix(bc, tc), LAMBDA n :
    With([i \in 1..(Len(bc) - n) |-> <<".", ".">>] \o Drop(tc, n), LAMBDA comps :
        IF targ = base THEN [path |-> <<".">>, err |-> FALSE]
        ELSE IF IsAbs(base) # IsAbs(targ) THEN [path |-> <<>>, err |-> TRUE]
        ELSE [path |-> JoinSlash(comps), err |-> FALSE]))))))))

\* filepath.Dir: all but the last element of the path, cleaned
Dir(path) ==
    With({i \in 1..Len(path) : path[i] = "/"}, LAMBDA slashes :
        IF slashes = {} THEN <<".">>
        ELSE Clean(Take(path, CHOOSE i \in slashes : \A j \in slashes : j <= i)))

\* filepath.Join of two elements: empty elements are ignored, the result is cleaned
Join(a, c) ==
    IF a = <<>> /\ c = <<>> THEN <<>>
    ELSE IF a = <<>> THEN Clean(c)
    ELSE IF c = <<>> THEN Clean(a)
    ELSE Clean(a \o <<"/">> \o c)

\* filter.BaseDir: the directory of the pattern up to its first glob character
BaseDir(pattern) ==
    With({i \in 1..Len(pattern) : pattern[i] \in {"*", "{", "}", "?", "[", "]"}},
         LAMBDA meta :
             IF meta = {} THEN Clean(Dir(pattern))
             ELSE Clean(Dir(Take(pattern, (CHOOSE i \in meta : \A j \in meta : i <= j) - 1))))

\* isUnder of package filter: directory c is under directory a
filterIsUnder(a, c) == HasPrefix(Abs(c), Abs(a))

\* for i, e := range bases, from index i, for the base directory s
RECURSIVE appendBaseDir(_, _, _)
appendBaseDir(bases, s, i) ==
    IF i > Len(bases) THEN Append(bases, s)
    ELSE IF filterIsUnder(s, bases[i]) THEN [bases EXCEPT ![i] = s]
    ELSE IF filterIsUnder(bases[i], s) THEN bases
    ELSE appendBaseDir(bases, s, i + 1)

\* filter.AppendBaseDirs
RECURSIVE AppendBaseDirs(_, _)
AppendBaseDirs(bases, patterns) ==
    IF patterns = <<>> THEN bases
    ELSE AppendBaseDirs(appendBaseDir(bases, BaseDir(Head(patterns)), 1), Tail(patterns))

\* the path is returned relative to the base that contains it
RECURSIVE normPathRel(_, _)
normPathRel(bases, abspath) ==
    IF bases = <<>> THEN [path |-> ToSlash(abspath), err |-> FALSE]
    ELSE With(BaseDir(Head(bases)), LAMBDA base :
         With(Abs(base), LAMBDA absbase :
             IF isUnder(absbase, abspath)
             THEN With(Rel(absbase, abspath), LAMBDA relpath :
                      IF relpath.err THEN [path |-> <<>>, err |-> TRUE]
                      ELSE [path |-> ToSlash(relpath.path), err |-> FALSE])
             ELSE normPathRel(Tail(bases), abspath)))

\* normPath(bases, abspath) of the watcher that takes a list of paths: the result
\* is [path, err]
RECURSIVE normPath(_, _)
normPath(bases, abspath) ==
    IF bases = <<>> THEN [path |-> ToSlash(abspath), err |-> FALSE]
    ELSE With(BaseDir(Head(bases)), LAMBDA base :
         With(Abs(base), LAMBDA absbase :
             IF isUnder(absbase, abspath)
             THEN With(Rel(absbase, abspath), LAMBDA relpath :
                      IF relpath.err THEN [path |-> <<>>, err |-> TRUE]
                      ELSE [path |-> ToSlash(Join(base, relpath.path)), err |-> FALSE])
             ELSE normPath(Tail(bases), abspath)))

\* normPaths(bases, abspaths) of that watcher: the result is [paths, err]
RECURSIVE normPathsBases(_, _)
normPathsBases(bases, abspaths) ==
    IF abspaths = <<>> THEN [paths |-> <<>>, err |-> FALSE]
    ELSE With(normPath(bases, Head(abspaths)), LAMBDA norm :
             IF norm.err THEN [paths |-> Nil, err |-> TRUE]
             ELSE With(normPathsBases(bases, Tail(abspaths)), LAMBDA rest :
                      IF rest.err THEN rest
                      ELSE [paths |-> <<norm.path>> \o rest.paths, err |-> FALSE]))

\* Mod.normPaths(bases) of that watcher: the result is [mod, err]
ModNormPathsBases(mod, bases) ==
    With(normPathsBases(bases, mod.Changed), LAMBDA changed_ :
        IF changed_.err THEN [mod |-> Nil, err |-> TRUE]
        ELSE With(normPathsBases(bases, mod.Deleted), LAMBDA deleted_ :
            IF deleted_.err THEN [mod |-> Nil, err |-> TRUE]
            ELSE With(normPathsBases(bases, mod.Added), LAMBDA added_ :
                IF added_.err THEN [mod |-> Nil, err |-> TRUE]
                ELSE [mod |-> [Changed |-> changed_.paths, Deleted |-> deleted_.paths,
                               Added |-> added_.paths],
                      err |-> FALSE])))

\* normPaths(root, abspaths): the result is [paths, err]
RECURSIVE normPathsLoop(_, _)
normPathsLoop(aroot, abspaths) ==
    IF abspaths = <<>> THEN <<>>
    ELSE With(Abs(Head(abspaths)), LAMBDA norm :
             LET rel == IF isUnder(aroot, norm) THEN Rel(aroot, norm).path ELSE norm
             IN  <<ToSlash(rel)>> \o normPathsLoop(aroot, Tail(abspaths)))

normPaths(root, abspaths) ==
    With(Abs(root), LAMBDA aroot :
        [paths |-> normPathsLoop(aroot, abspaths), err |-> FALSE])

\* Mod.normPaths: the result is [mod, err]
ModNormPaths(mod, root) ==
    With(normPaths(root, mod.Changed), LAMBDA changed_ :
        IF changed_.err THEN [mod |-> Nil, err |-> TRUE]
        ELSE With(normPaths(root, mod.Deleted), LAMBDA deleted_ :
            IF deleted_.err THEN [mod |-> Nil, err |-> TRUE]
            ELSE With(normPaths(root, mod.Added), LAMBDA added_ :
                IF added_.err THEN [mod |-> Nil, err |-> TRUE]
                ELSE [mod |-> [Changed |-> changed_.paths, Deleted |-> deleted_.paths,
                               Added |-> added_.paths],
                      err |-> FALSE])))

(***************************************************************************)
(* The watcher: state.                                                     *)
(***************************************************************************)
VARIABLES
    lullTime,     \* Watch's lullTime argument, in seconds
    includes,     \* Watch's include patterns
    excludes,     \* Watch's exclude patterns
    evtch,        \* the events buffered in evtch
    evtStopped,   \* notify.Stop(evtch) was called: the subscription is closed
    nEvents,      \* number of raw events the subscription has delivered
    added,        \* batch: added
    removed,      \* batch: removed
    changed,      \* batch: changed
    renamed,      \* batch: renamed
    hadLullMod,   \* batch: hadLullMod
    lullLeft,     \* seconds left on the pending time.After(lullTime)
    maxLeft,      \* seconds left on the pending time.After(maxTime)
    wpc,          \* position of the goroutine that runs batch
    b,            \* batch's result, then the Mod handed to send
    oracle,       \* the files that exist when mkmod runs
    lastSel,      \* the case the select of the running batch call took last
    received,     \* observer: the events the running batch call has received
    dup,          \* observer: the running batch call received some event twice
    lulled,       \* observer: the lull timer expired during the running batch call
    elapsed,      \* observer: seconds since the running batch call began
    sinceLast,    \* observer: seconds since batch last received an event (or began)
    resolved,     \* log: the Mods the loop handed to send, in the order of their cycles
    delivered,    \* log: the Mods received from modch, in the order of their receipt
    carried,      \* log: an event was waiting in evtch when batch last returned
    modch,        \* the Mods buffered in modch
    modClosed,    \* close(modch) was executed
    closeCount,   \* number of times close(modch) was executed
    mu,           \* holder of the Watcher's mutex: <<>> when it is unlocked
    closed,       \* Watcher.closed
    spc,          \* position of every goroutine that calls Stop
    stopReturned, \* some call of Stop has returned
    rcvAfterStop, \* result of the last receive performed after a Stop returned
    panicked,     \* the runtime panic the program died of, if any
    call,         \* a function under check: its name and its arguments
    ret,          \* the result of the function under check, once it has returned
    ch,           \* devd: the lists buffered in the channel the reloader watches
    fwd,          \* devd: the list the goroutine of Route.Watch is sending on ch, if any
    eis,          \* livereload: the lists Server.Watch has received, in order
    broadcast     \* livereload: the commands sent on s.broadcast, in order

accVars == <<added, removed, changed, renamed>>
batchVars == <<added, removed, changed, renamed, hadLullMod, lullLeft, maxLeft>>
obsVars == <<received, dup, lulled, elapsed, sinceLast>>
paramVars == <<lullTime, includes, excludes>>
evtVars == <<evtch, evtStopped, nEvents>>
stopVars == <<modClosed, closeCount, closed, spc, stopReturned>>
logVars == <<resolved, delivered, carried>>
callVars == <<call, ret>>
reloadVars == <<ch, fwd, eis, broadcast>>
watchVars == <<paramVars, evtVars, batchVars, wpc, b, oracle, lastSel, obsVars, logVars,
               modch, stopVars, mu, rcvAfterStop, panicked>>
vars == <<lullTime, includes, excludes, evtch, evtStopped, nEvents, added, removed,
          changed, renamed, hadLullMod, lullLeft, maxLeft, wpc, b, oracle, lastSel,
          received, dup, lulled, elapsed, sinceLast, resolved, delivered, carried,
          modch, modClosed, closeCount, mu, closed, spc, stopReturned, rcvAfterStop,
          panicked, call, ret, ch, fwd, eis, broadcast>>

Stoppers == 1..NStoppers

\* the lull times Watch is called with: below and at MaxLullWait
LullTimes == {2, MaxLullWait}

\* the include patterns devd passes, and the exclude patterns of the -x flag
IncludeAll == << <<"*", "*">> >>
ExcludeCss == << <<"*", ".", "c", "s", "s">> >>

\* an exclude pattern with a character class that is not closed
ExcludeBad == << <<"[">> >>

\* the exclude lists of the runs that check the handling of pattern errors
ExcludeLists == {<<>>, ExcludeCss, ExcludeBad, ExcludeCss \o ExcludeBad}

\* the clocks of the observer stop counting here
ClockCap == MaxLullWait + 1

\* the files recorded in the accumulators of the running batch call
Touched == added \cup removed \cup changed \cup renamed

(***************************************************************************)
(* batch.                                                                  *)
(***************************************************************************)
\* the timers are created when batch is called and never again
ArmTimersAtCall ==
    /\ lullLeft' = IF wpc # "select" THEN lullTime ELSE lullLeft
    /\ maxLeft' = IF wpc # "select" THEN MaxLullWait ELSE maxLeft

\* a select statement is entered: both time.After timers are created afresh
ArmTimers ==
    /\ lullLeft' = lullTime
    /\ maxLeft' = MaxLullWait

\* the maps of batch are not made anew when batch is called
NoBatchKeep ==
    /\ UNCHANGED accVars
    /\ hadLullMod' = FALSE
    /\ oracle' = {}
    /\ lastSel' = "none"
    /\ received' = {}
    /\ dup' = FALSE
    /\ lulled' = FALSE
    /\ elapsed' = 0
    /\ sinceLast' = 0

\* the locals of batch when it is not running, and what the observer holds then
NoBatch ==
    /\ added' = {}
    /\ removed' = {}
    /\ changed' = {}
    /\ renamed' = {}
    /\ hadLullMod' = FALSE
    /\ oracle' = {}
    /\ lastSel' = "none"
    /\ received' = {}
    /\ dup' = FALSE
    /\ lulled' = FALSE
    /\ elapsed' = 0
    /\ sinceLast' = 0

\* batch is called: empty accumulators, hadLullMod false, the for loop is entered
CallBatch ==
    /\ NoBatch
    /\ ArmTimers
    /\ wpc' = "select"
    /\ b' = Nil

\* return of batch with result r
ReturnBatch(r) ==
    /\ b' = r
    /\ wpc' = "ret"
    /\ lullLeft' = 0
    /\ maxLeft' = 0

\* mkmod runs on copies of the maps of batch
ResolveOnCopies ==
    \E ex \in SUBSET Paths :
        /\ oracle' = ex
        /\ ReturnBatch(mkmod(ex, added, removed, changed, renamed))
        /\ UNCHANGED accVars

\* m := mkmod(exists, added, removed, changed, renamed); return &m
\* (mkmod has written to added, removed and changed when it returns)
Resolve ==
    \E ex \in SUBSET Paths :
        \E maps \in {mkmodMaps(ex, added, removed, changed, renamed)} :
            /\ oracle' = ex
            /\ added' = maps.added
            /\ removed' = maps.removed
            /\ changed' = maps.changed
            /\ UNCHANGED renamed
            /\ ReturnBatch(mkmodRet(maps))

\* the switch has no case for notify.Write
RecordNoWrite(evt, acc) ==
    IF evt.kind = "Create" THEN [acc EXCEPT !.added = @ \cup {evt.path}]
    ELSE IF evt.kind = "Remove" THEN [acc EXCEPT !.removed = @ \cup {evt.path}]
    ELSE IF evt.kind = "Rename" THEN [acc EXCEPT !.renamed = @ \cup {evt.path}]
    ELSE acc

\* the switch on evt.Event(): the accumulators after evt is recorded
Record(evt, acc) ==
    IF evt.kind = "Create" THEN [acc EXCEPT !.added = @ \cup {evt.path}]
    ELSE IF evt.kind = "Remove" THEN [acc EXCEPT !.removed = @ \cup {evt.path}]
    ELSE IF evt.kind = "Write" THEN [acc EXCEPT !.changed = @ \cup {evt.path}]
    ELSE IF evt.kind = "Rename" THEN [acc EXCEPT !.renamed = @ \cup {evt.path}]
    ELSE acc

\* the nil event makes batch resolve the cycle
BatchNilResolve ==
    /\ Resolve
    /\ UNCHANGED <<hadLullMod, obsVars>>

\* if evt == nil { return nil }
BatchNil ==
    /\ ReturnBatch(Nil)
    /\ UNCHANGED <<accVars, hadLullMod, oracle, obsVars>>

\* case evt := <-ch
BatchReceive ==
    /\ wpc = "select"
    /\ panicked = "none"
    /\ lastSel' = IF evtch # <<>> THEN "evt" ELSE "nil"
    /\ \/ /\ evtch # <<>>
          /\ LET evt == Head(evtch)
                 acc == Record(evt, [added |-> added, removed |-> removed,
                                     changed |-> changed, renamed |-> renamed])
             IN  /\ evtch' = Tail(evtch)
                 /\ hadLullMod' = TRUE
                 /\ added' = acc.added
                 /\ removed' = acc.removed
                 /\ changed' = acc.changed
                 /\ renamed' = acc.renamed
                 /\ received' = received \cup {evt}
          /\ ArmTimers
          /\ sinceLast' = 0
          /\ UNCHANGED <<wpc, b, oracle, lulled, elapsed>>
       \/ /\ evtch = <<>>
          /\ evtStopped
          /\ BatchNil
          /\ UNCHANGED evtch
    /\ UNCHANGED <<paramVars, callVars, reloadVars, logVars, evtStopped, nEvents, modch, stopVars, mu, rcvAfterStop,
                   panicked>>

BatchEvent ==
    /\ BatchReceive
    /\ UNCHANGED dup

\* the receive of a batch call whose observer notes events received twice
BatchEventCounted ==
    /\ BatchReceive
    /\ dup' = (dup \/ (evtch # <<>> /\ Head(evtch) \in received))

\* case <-time.After(lullTime)
BatchLull ==
    /\ wpc = "select"
    /\ panicked = "none"
    /\ lullLeft = 0
    /\ UNCHANGED <<paramVars, callVars, reloadVars, logVars, evtVars, received, dup, elapsed, sinceLast, modch,
                   stopVars, mu, rcvAfterStop, panicked>>
    /\ lastSel' = "lull"
    /\ lulled' = TRUE
    /\ IF hadLullMod = FALSE
       THEN /\ UNCHANGED hadLullMod
            /\ Resolve
       ELSE /\ hadLullMod' = FALSE
            /\ ArmTimers
            /\ UNCHANGED <<accVars, wpc, b, oracle>>

\* case <-time.After(maxTime)
BatchMax ==
    /\ wpc = "select"
    /\ panicked = "none"
    /\ maxLeft = 0
    /\ UNCHANGED <<paramVars, callVars, reloadVars, logVars, evtVars, modch, stopVars, mu, rcvAfterStop, panicked>>
    /\ UNCHANGED <<hadLullMod, obsVars>>
    /\ lastSel' = "max"
    /\ Resolve

\* some case of the select is ready: the goroutine does not stay blocked
SelectReady == evtch # <<>> \/ evtStopped \/ lullLeft = 0 \/ maxLeft = 0

\* one second passes on the timers while batch is blocked in its select
TimersTick ==
    /\ wpc = "select"
    /\ panicked = "none"
    /\ ~ SelectReady
    /\ lullLeft' = lullLeft - 1
    /\ maxLeft' = maxLeft - 1
    /\ UNCHANGED <<paramVars, callVars, reloadVars, logVars, evtVars, accVars, hadLullMod, wpc, b, oracle, lastSel,
                   received, dup, lulled, modch, stopVars, mu, rcvAfterStop, panicked>>

\* a second of a run of the watcher
Tick ==
    /\ TimersTick
    /\ UNCHANGED <<elapsed, sinceLast>>

\* a second of a batch call under observation: the observer's clocks count it
TickClocked ==
    /\ TimersTick
    /\ elapsed' = IF elapsed < ClockCap THEN elapsed + 1 ELSE elapsed
    /\ sinceLast' = IF sinceLast < ClockCap THEN sinceLast + 1 ELSE sinceLast

\* the subscription delivers a raw event into evtch
Deliver ==
    /\ ~ evtStopped
    /\ panicked = "none"
    /\ Len(evtch) < MaxQueue
    /\ \E evt \in Events : evtch' = Append(evtch, evt)
    /\ UNCHANGED <<paramVars, callVars, reloadVars, logVars, evtStopped, batchVars, wpc, b, oracle, lastSel, obsVars,
                   modch, stopVars, mu, rcvAfterStop, panicked>>

\* a run of the watcher: MaxEvents raw events are delivered over the run
Notify ==
    /\ nEvents < MaxEvents
    /\ Deliver
    /\ nEvents' = nEvents + 1

\* a logged run of the watcher: MaxCycleEvents raw events are delivered
NotifyCycles ==
    /\ nEvents < MaxCycleEvents
    /\ Deliver
    /\ nEvents' = nEvents + 1

\* a stream of raw events feeds a running batch call
NotifyStream ==
    /\ wpc = "select"
    /\ Deliver
    /\ UNCHANGED nEvents

(***************************************************************************)
(* Watch: the loop of the watch goroutine, and Watcher.send.               *)
(***************************************************************************)
\* the loop body sends whatever the filter returns
LoopBodySendAll(r) ==
    IF r = Nil THEN [next |-> "done", mod |-> Nil]
    ELSE IF Empty(r) THEN [next |-> "batch", mod |-> r]
    ELSE With(ModNormPaths(r, Root), LAMBDA n :
             [next |-> "send", mod |-> Filter(n.mod, includes, excludes).mod])

\* the loop body goes on to the next cycle when batch returns nil
LoopBodyNoReturn(r) ==
    IF r = Nil THEN [next |-> "batch", mod |-> Nil]
    ELSE IF Empty(r) THEN [next |-> "batch", mod |-> r]
    ELSE With(ModNormPaths(r, Root), LAMBDA n :
             IF n.err THEN [next |-> "batch", mod |-> r]
             ELSE With(Filter(n.mod, includes, excludes), LAMBDA f :
                      IF f.err THEN [next |-> "batch", mod |-> n.mod]
                      ELSE IF ~ Empty(f.mod) THEN [next |-> "send", mod |-> f.mod]
                      ELSE [next |-> "batch", mod |-> f.mod]))

\* what the loop body does with batch's result r: [next, mod]
LoopBody(r) ==
    IF r = Nil THEN [next |-> "done", mod |-> Nil]
    ELSE IF Empty(r) THEN [next |-> "batch", mod |-> r]
    ELSE With(ModNormPaths(r, Root), LAMBDA n :
             IF n.err THEN [next |-> "batch", mod |-> r]
             ELSE With(Filter(n.mod, includes, excludes), LAMBDA f :
                      IF f.err THEN [next |-> "batch", mod |-> n.mod]
                      ELSE IF ~ Empty(f.mod) THEN [next |-> "send", mod |-> f.mod]
                      ELSE [next |-> "batch", mod |-> f.mod]))

\* batch has returned: the rest of the loop body, up to the call of send or of batch
WatchLoopBody ==
    /\ wpc = "ret"
    /\ panicked = "none"
    /\ UNCHANGED <<paramVars, callVars, reloadVars, evtVars, modch, stopVars, mu, rcvAfterStop, panicked>>
    /\ \E l \in {LoopBody(b)} :
          IF l.next = "batch" THEN CallBatch
          ELSE /\ wpc' = IF l.next = "send" THEN "send_lock" ELSE "done"
               /\ b' = l.mod
               /\ NoBatch
               /\ UNCHANGED <<lullLeft, maxLeft>>

WatchLoop ==
    /\ WatchLoopBody
    /\ UNCHANGED logVars

\* the loop body in a logged run: the Mod handed to send is logged
WatchLoopLogged ==
    /\ WatchLoopBody
    /\ resolved' = IF wpc' = "send_lock" THEN Append(resolved, b') ELSE resolved
    /\ carried' = (evtch # <<>>)
    /\ UNCHANGED delivered

\* send: w.Lock(); if !w.closed
SendLock ==
    /\ wpc = "send_lock"
    /\ panicked = "none"
    /\ mu = <<>>
    /\ IF ~ closed
       THEN /\ mu' = <<"watch">>
            /\ wpc' = "send_put"
            /\ UNCHANGED <<batchVars, b, oracle, lastSel, obsVars>>
       ELSE \* the deferred Unlock, then the next iteration of the loop
            /\ mu' = <<>>
            /\ CallBatch
    /\ UNCHANGED <<paramVars, callVars, reloadVars, logVars, evtVars, modch, stopVars, rcvAfterStop, panicked>>

\* the output buffer is a stack without a limit: the Mod sent last is received first
SendPutStack ==
    /\ wpc = "send_put"
    /\ panicked = "none"
    /\ modch' = <<b>> \o modch
    /\ mu' = <<>>
    /\ CallBatch
    /\ UNCHANGED <<paramVars, callVars, reloadVars, logVars, evtVars, stopVars, rcvAfterStop, panicked>>

\* send: w.modch <- m, then the deferred Unlock and the next iteration of the loop
SendPut ==
    /\ wpc = "send_put"
    /\ panicked = "none"
    /\ IF modClosed
       THEN /\ panicked' = "send on closed channel"
            /\ UNCHANGED <<modch, mu, wpc, batchVars, b, oracle, lastSel, obsVars>>
       ELSE /\ Len(modch) < ModchCap
            /\ modch' = Append(modch, b)
            /\ mu' = <<>>
            /\ CallBatch
            /\ UNCHANGED panicked
    /\ UNCHANGED <<paramVars, callVars, reloadVars, logVars, evtVars, stopVars, rcvAfterStop>>

(***************************************************************************)
(* Watcher.Stop, called by any of the stopping goroutines.                 *)
(***************************************************************************)
\* Stop does not look at w.closed
StopLockNoCheck(s) ==
    /\ spc[s] = "idle"
    /\ panicked = "none"
    /\ mu = <<>>
    /\ mu' = <<"stop", s>>
    /\ spc' = [spc EXCEPT ![s] = "notify"]
    /\ UNCHANGED <<paramVars, callVars, reloadVars, logVars, evtVars, batchVars, wpc, b, oracle, lastSel, obsVars,
                   modch, modClosed, closeCount, closed, stopReturned, rcvAfterStop,
                   panicked>>

\* Stop: w.Lock(); if !w.closed
StopLock(s) ==
    /\ spc[s] = "idle"
    /\ panicked = "none"
    /\ mu = <<>>
    /\ mu' = <<"stop", s>>
    /\ spc' = [spc EXCEPT ![s] = IF ~ closed THEN "notify" ELSE "unlock"]
    /\ UNCHANGED <<paramVars, callVars, reloadVars, logVars, evtVars, batchVars, wpc, b, oracle, lastSel, obsVars,
                   modch, modClosed, closeCount, closed, stopReturned, rcvAfterStop,
                   panicked>>

\* notify.Stop(w.evtch): the subscription ends and the event channel is closed
NotifyStop(s) ==
    /\ spc[s] = "notify"
    /\ panicked = "none"
    /\ evtStopped' = TRUE
    /\ spc' = [spc EXCEPT ![s] = "close"]
    /\ UNCHANGED <<paramVars, callVars, reloadVars, logVars, evtch, nEvents, batchVars, wpc, b, oracle, lastSel,
                   obsVars, modch, modClosed, closeCount, closed, mu, stopReturned,
                   rcvAfterStop, panicked>>

\* Stop sets w.closed and leaves the output channel open
StopCloseSkip(s) ==
    /\ spc[s] = "close"
    /\ panicked = "none"
    /\ spc' = [spc EXCEPT ![s] = "set"]
    /\ UNCHANGED <<paramVars, callVars, reloadVars, logVars, evtVars, batchVars, wpc, b, oracle, lastSel, obsVars,
                   modch, modClosed, closeCount, closed, mu, stopReturned,
                   rcvAfterStop, panicked>>

\* close(w.modch)
StopClose(s) ==
    /\ spc[s] = "close"
    /\ panicked = "none"
    /\ IF modClosed
       THEN /\ panicked' = "close of closed channel"
            /\ UNCHANGED <<modClosed, closeCount, spc>>
       ELSE /\ modClosed' = TRUE
            /\ closeCount' = closeCount + 1
            /\ spc' = [spc EXCEPT ![s] = "set"]
            /\ UNCHANGED panicked
    /\ UNCHANGED <<paramVars, callVars, reloadVars, logVars, evtVars, batchVars, wpc, b, oracle, lastSel, obsVars,
                   modch, closed, mu, stopReturned, rcvAfterStop>>

\* w.closed = true
StopSet(s) ==
    /\ spc[s] = "set"
    /\ panicked = "none"
    /\ closed' = TRUE
    /\ spc' = [spc EXCEPT ![s] = "unlock"]
    /\ UNCHANGED <<paramVars, callVars, reloadVars, logVars, evtVars, batchVars, wpc, b, oracle, lastSel, obsVars,
                   modch, modClosed, closeCount, mu, stopReturned, rcvAfterStop,
                   panicked>>

\* the deferred w.Unlock(): Stop returns
StopUnlock(s) ==
    /\ spc[s] = "unlock"
    /\ panicked = "none"
    /\ mu' = <<>>
    /\ spc' = [spc EXCEPT ![s] = "idle"]
    /\ stopReturned' = TRUE
    /\ UNCHANGED <<paramVars, callVars, reloadVars, logVars, evtVars, batchVars, wpc, b, oracle, lastSel, obsVars,
                   modch, modClosed, closeCount, closed, rcvAfterStop, panicked>>

(***************************************************************************)
(* The consumer of the output channel: for mod := range modchan.           *)
(***************************************************************************)
RecvMod ==
    /\ panicked = "none"
    /\ \/ /\ modch # <<>>
          /\ modch' = Tail(modch)
          /\ rcvAfterStop' = IF stopReturned THEN "mod" ELSE rcvAfterStop
       \/ /\ modch = <<>>
          /\ modClosed
          /\ rcvAfterStop' = IF stopReturned THEN "closed" ELSE rcvAfterStop
          /\ UNCHANGED modch
    /\ UNCHANGED <<paramVars, callVars, reloadVars, evtVars, batchVars, wpc, b, oracle, lastSel, obsVars,
                   stopVars, mu, panicked>>

Recv ==
    /\ RecvMod
    /\ UNCHANGED logVars

\* a receive in a logged run: the Mod received is logged
RecvLogged ==
    /\ RecvMod
    /\ delivered' = IF modch # <<>> THEN Append(delivered, Head(modch)) ELSE delivered
    /\ UNCHANGED <<resolved, carried>>

(***************************************************************************)
(* Spec: a run of the watcher that Watch has started.                      *)
(***************************************************************************)
\* the state Watch sets up, but for its arguments and its goroutine
InitChannels ==
    /\ evtch = <<>>
    /\ evtStopped = FALSE
    /\ nEvents = 0
    /\ added = {}
    /\ removed = {}
    /\ changed = {}
    /\ renamed = {}
    /\ hadLullMod = FALSE
    /\ maxLeft = MaxLullWait
    /\ b = Nil
    /\ oracle = {}
    /\ lastSel = "none"
    /\ received = {}
    /\ dup = FALSE
    /\ lulled = FALSE
    /\ elapsed = 0
    /\ sinceLast = 0
    /\ resolved = <<>>
    /\ delivered = <<>>
    /\ carried = FALSE
    /\ modch = <<>>
    /\ modClosed = FALSE
    /\ closeCount = 0
    /\ mu = <<>>
    /\ closed = FALSE
    /\ spc = [s \in Stoppers |-> "idle"]
    /\ stopReturned = FALSE
    /\ rcvAfterStop = "none"
    /\ panicked = "none"
    /\ ch = <<>>
    /\ fwd = <<>>
    /\ eis = <<>>
    /\ broadcast = <<>>

\* the state when the goroutine of Watch enters batch, but for Watch's arguments
InitRunning ==
    /\ wpc = "select"
    /\ InitChannels

\* no function is under check
InitRun ==
    /\ InitRunning
    /\ call = Nil
    /\ ret = Nil

\* devd's watcher: every file is included, the style sheets are excluded
InitWatch ==
    /\ includes = IncludeAll
    /\ excludes = ExcludeCss
    /\ InitRun

Init ==
    /\ lullTime \in LullTimes
    /\ lullLeft = lullTime
    /\ InitWatch

Stop ==
    \E s \in Stoppers :
        \/ StopLock(s)
        \/ NotifyStop(s)
        \/ StopClose(s)
        \/ StopSet(s)
        \/ StopUnlock(s)

Next ==
    \/ Notify
    \/ Tick
    \/ BatchEvent
    \/ BatchLull
    \/ BatchMax
    \/ WatchLoop
    \/ SendLock
    \/ SendPut
    \/ Stop
    \/ Recv

Spec == Init /\ [][Next]_vars

(***************************************************************************)
(* SpecBatch: one call of batch, fed by a stream of raw events and timed   *)
(* by an observer (the setting of TestBatch).                              *)
(***************************************************************************)
NextBatch ==
    \/ NotifyStream
    \/ TickClocked
    \/ BatchEvent
    \/ BatchLull
    \/ BatchMax

SpecBatch == Init /\ [][NextBatch]_vars

(***************************************************************************)
(* SpecResolve: one call of batch with a lull time below the second of the *)
(* model's clock (TestBatch calls batch with 10 ms), fed by a stream of    *)
(* raw events, up to the changeset it returns.  The lull timer is ready    *)
(* whenever the select is entered; events received twice are noted.        *)
(***************************************************************************)
InitResolve ==
    /\ lullTime = 0
    /\ lullLeft = lullTime
    /\ InitWatch

NextResolve ==
    \/ NotifyStream
    \/ BatchEventCounted
    \/ BatchLull

SpecResolve == InitResolve /\ [][NextResolve]_vars

(***************************************************************************)
(* SpecCycles: a run of the watcher over several batching cycles, Stop not *)
(* being called; the Mods handed to send and the Mods received from the    *)
(* output channel are logged.                                              *)
(***************************************************************************)
NextCycles ==
    \/ NotifyCycles
    \/ Tick
    \/ BatchEvent
    \/ BatchLull
    \/ BatchMax
    \/ WatchLoopLogged
    \/ SendLock
    \/ SendPut
    \/ RecvLogged

SpecCycles == Init /\ [][NextCycles]_vars

(***************************************************************************)
(* baseDirs: the directories Watch subscribes to.  The file system holds   *)
(* the directories /, /r and /r/x, the files of Paths and the symbolic     *)
(* link /r/l to x.                                                         *)
(***************************************************************************)
FsDirs == {<<"/">>, Root, Root \o <<"/", "x">>}
FsLink == Root \o <<"/", "l">>
FsLinkTarget == <<"x">>

\* os.Lstat(path) succeeds
Lstat(path) == path \in FsDirs \cup Paths \cup {FsLink}

\* filter.SplitPattern: [base, trail]
SplitPattern(pattern) ==
    With({i \in 1..Len(pattern) : pattern[i] \in {"*", "{", "}", "?", "[", "]"}},
         LAMBDA meta :
             IF meta = {} THEN [base |-> pattern, trail |-> <<>>]
             ELSE With((CHOOSE i \in meta : \A j \in meta : i <= j) - 1, LAMBDA split :
                      [base |-> Take(pattern, split), trail |-> Drop(pattern, split)]))

RECURSIVE enclosingDir(_)
enclosingDir(path) ==
    IF path \in FsDirs THEN path
    ELSE IF path = <<>> THEN <<>>
    ELSE enclosingDir(Dir(path))

\* the body of the loop of baseDirs for the pattern v: [include, base]
baseDir(root, v) ==
    With(SplitPattern(v), LAMBDA sp :
    With(IF ~ IsAbs(sp.base) THEN Join(root, sp.base) ELSE sp.base, LAMBDA bdir :
        IF Lstat(bdir) /\ bdir = FsLink
        THEN With(IF IsAbs(FsLinkTarget) THEN FsLinkTarget ELSE Join(bdir, FsLinkTarget),
                  LAMBDA lnk : [include |-> lnk \o <<"/">> \o sp.trail, base |-> lnk])
        ELSE With(enclosingDir(bdir), LAMBDA dir :
                 [include |-> v, base |-> IF dir = <<>> THEN root ELSE dir])))

\* baseDirs(root, includePatterns): [newincludes, bases]
baseDirs(root, includePatterns) ==
    [newincludes |-> [i \in 1..Len(includePatterns) |->
                         baseDir(root, includePatterns[i]).include],
     bases |-> [i \in 1..Len(includePatterns) |->
                   baseDir(root, includePatterns[i]).base]]

(***************************************************************************)
(* List: the files on disk that a watch would report.                      *)
(***************************************************************************)
\* the entries of the directory dir, in the order filepath.Walk visits them
Children(dir) == SortStrings({e \in (FsDirs \cup Paths \cup {FsLink}) \ {dir} : Dir(e) = dir})

\* the callback List passes to filepath.Walk, for the path p: the paths it appends
\* to ret, and whether it returns filepath.SkipDir
listVisit(p, newincludes, excludePatterns) ==
    IF p = FsLink THEN [ret |-> <<>>, skip |-> FALSE]
    ELSE With(File(p, newincludes, excludePatterns), LAMBDA f :
        IF f.err THEN [ret |-> <<>>, skip |-> FALSE]
        ELSE IF p \in FsDirs
        THEN With(MatchAny(p, excludePatterns), LAMBDA m :
                 [ret |-> <<>>, skip |-> m.err /\ ~ m.m])
        ELSE IF f.path # <<>> THEN [ret |-> <<f.path>>, skip |-> FALSE]
        ELSE [ret |-> <<>>, skip |-> FALSE])

\* filepath.Walk(p, ...): the paths the callback appends to ret
RECURSIVE listWalk(_, _, _)
RECURSIVE listWalkAll(_, _, _)
listWalk(p, newincludes, excludePatterns) ==
    With(listVisit(p, newincludes, excludePatterns), LAMBDA v :
        IF p \in FsDirs /\ ~ v.skip
        THEN v.ret \o listWalkAll(Children(p), newincludes, excludePatterns)
        ELSE v.ret)

\* the walks of a list of paths, one after the other
listWalkAll(ps, newincludes, excludePatterns) ==
    IF ps = <<>> THEN <<>>
    ELSE listWalk(Head(ps), newincludes, excludePatterns)
         \o listWalkAll(Tail(ps), newincludes, excludePatterns)

\* List(root, includePatterns, excludePatterns): the result is [paths, err]
List(root, includePatterns, excludePatterns) ==
    With(baseDirs(root, includePatterns), LAMBDA bd :
        normPaths(root, listWalkAll(bd.bases, bd.newincludes, excludePatterns)))

(***************************************************************************)
(* Changesets in memory.  A slice refers to a backing array; the arrays    *)
(* are kept by address in mem, and a changeset in memory is the record of  *)
(* the addresses of its three lists.                                       *)
(***************************************************************************)
\* the lists of the changeset m
ModAt(mem, m) ==
    [Changed |-> mem[m.Changed], Deleted |-> mem[m.Deleted], Added |-> mem[m.Added]]

\* &Mod{Changed: changed, Deleted: deleted, Added: added} of three lists that the
\* callee has built in arrays of its own (ret := []string{} or make)
NewMod(mem, v) ==
    [mem |-> mem \o <<v.Changed, v.Deleted, v.Added>>,
     mod |-> [Changed |-> Len(mem) + 1, Deleted |-> Len(mem) + 2, Added |-> Len(mem) + 3]]

\* the lists built are written over the lists of the changeset m
OverMod(mem, m, v) ==
    [mem |-> [a \in 1..Len(mem) |->
                 IF a = m.Changed THEN v.Changed
                 ELSE IF a = m.Deleted THEN v.Deleted
                 ELSE IF a = m.Added THEN v.Added
                 ELSE mem[a]],
     mod |-> m]

\* mod.Filter(root, includes, excludes)
FilterOn(mem, m, includes_, excludes_) ==
    NewMod(mem, Filter(ModAt(mem, m), includes_, excludes_).mod)

\* normPaths writes the normalised paths over the lists it is given
normPathsOver(mem, m, root) ==
    OverMod(mem, m, ModNormPaths(ModAt(mem, m), root).mod)

\* mod.normPaths(root)
normPathsOn(mem, m, root) ==
    NewMod(mem, ModNormPaths(ModAt(mem, m), root).mod)

\* mod.Join(b)
JoinOn(mem, m, c) ==
    NewMod(mem, ModJoin(ModAt(mem, m), ModAt(mem, c)))

\* baseDirs on the pattern list at address a: newincludes := includePatterns[:] is
\* a slice of the caller's array, and newincludes[i] = ... writes to that array;
\* bases := make([]string, len(includePatterns)) is a new array
baseDirsOn(mem, a, root) ==
    With(baseDirs(root, mem[a]), LAMBDA bd :
        [mem |-> [x \in 1..Len(mem) |-> IF x = a THEN bd.newincludes ELSE mem[x]]
                 \o <<bd.bases>>,
         newincludes |-> a,
         bases |-> Len(mem) + 1])

\* normPath of devd's modd package
moddNormPath(base, abspath) ==
    With(Abs(base), LAMBDA absbase :
        With(Rel(absbase, abspath), LAMBDA relpath :
            IF relpath.err THEN [path |-> <<>>, err |-> TRUE]
            ELSE [path |-> Join(base, relpath.path), err |-> FALSE]))

\* normPaths of devd's modd package: abspaths[i] = norm
moddNormPaths(base, abspaths) ==
    [i \in 1..Len(abspaths) |-> moddNormPath(base, abspaths[i]).path]

\* Mod.normPaths of devd's modd package: the lists are rewritten where they are
moddModNormPaths(mem, m, base) ==
    OverMod(mem, m, [Changed |-> moddNormPaths(base, mem[m.Changed]),
                     Deleted |-> moddNormPaths(base, mem[m.Deleted]),
                     Added |-> moddNormPaths(base, mem[m.Added])])

(***************************************************************************)
(* SpecPatterns: a run of the watcher whose exclude list may hold a        *)
(* malformed pattern, Stop not being called; the lull time is below the    *)
(* second of the model's clock.                                            *)
(***************************************************************************)
InitPatterns ==
    /\ lullTime = 0
    /\ lullLeft = lullTime
    /\ includes = IncludeAll
    /\ excludes \in ExcludeLists
    /\ InitRun

NextPatterns ==
    \/ Notify
    \/ BatchEvent
    \/ BatchLull
    \/ WatchLoop
    \/ SendLock
    \/ SendPut
    \/ Recv

SpecPatterns == InitPatterns /\ [][NextPatterns]_vars

(***************************************************************************)
(* SpecCalls: one call of a function of the filter code, with arguments    *)
(* drawn from the file names and the patterns below.                       *)
(***************************************************************************)
\* the paths devd hands to filterFiles: URL paths under the route "/"
UrlA == <<"/", "a">>
UrlJs == <<"/", "b", ".", "j", "s">>
UrlFiles == {UrlA, UrlJs}

\* exclude patterns: one that is well formed, one with a class that is not closed,
\* and one whose second alternative is a class that is not closed
PatJs == <<"*", ".", "j", "s">>
PatOpen == <<"[">>
PatAltOpen == <<"{", "a", ",", "[", "}">>
ExcludePatterns == {PatJs, PatOpen, PatAltOpen}

\* filterFiles("/", files, excludePatterns, log)
FilterFilesCalls ==
    [fn : {"filterFiles"}, files : Slices(UrlFiles, MaxFiles),
     excludes : Slices(ExcludePatterns, MaxPatterns)]

\* the file names the filter package is called with: the paths relative to the root
Names == {TrimPrefix(f, <<"/">>) : f \in UrlFiles}

\* the changesets whose lists hold at most MaxFiles names
Mods == [Added : Slices(Names, MaxFiles), Changed : Slices(Names, MaxFiles),
         Deleted : Slices(Names, MaxFiles)]

\* mod.Filter(root, includes, excludes), at most one exclude pattern
FilterCalls ==
    [fn : {"Filter"}, mod : Mods, includes : {IncludeAll},
     excludes : Slices(ExcludePatterns, 1)]

\* include patterns: every path, and the scripts
IncludePatterns == {<<"*", "*">>, PatJs}

\* filter.Files(files, includePatterns, excludePatterns)
FilesCalls ==
    [fn : {"Files"}, files : Slices(Names, MaxFiles),
     includes : Slices(IncludePatterns, MaxPatterns),
     excludes : Slices(ExcludePatterns, MaxPatterns)]

\* filter.MatchAny(path, patterns)
MatchAnyCalls ==
    [fn : {"MatchAny"}, path : Names,
     patterns : Slices(IncludePatterns \cup ExcludePatterns, MaxPatterns)]

\* the paths Watch is called with: a directory of the working directory, the
\* working directory by its absolute path, and the working directory
BaseX == <<"x", "/", "*", "*">>
BaseAbs == Root \o <<"/", "*", "*">>
BaseWd == <<"*", "*">>
Bases == {BaseX, BaseAbs, BaseWd}

\* the paths of raw events: a file of /r/x, a file of /r whose name begins with x,
\* and a file outside /r
PathXA == Root \o <<"/", "x", "/", "a">>
PathXa == Root \o <<"/", "x", "a">>
PathOut == <<"/", "s", "/", "a">>
AbsPaths == {PathXA, PathXa, PathOut}

\* mod.normPaths(paths)
NormPathsCalls ==
    [fn : {"normPaths"},
     mod : [Changed : Slices(AbsPaths, MaxFiles), Deleted : Slices(AbsPaths, 1),
            Added : Slices(AbsPaths, 1)],
     bases : Slices(Bases, MaxPatterns)]

\* the changesets with at most one name in each list
SmallMods == [Added : Slices(Names, 1), Changed : Slices(Names, 1),
              Deleted : Slices(Names, 1)]

\* the changesets Join is called with: at most MaxFiles names in Changed
JoinMods == [Added : Slices(Names, 1), Changed : Slices(Names, MaxFiles),
             Deleted : Slices(Names, 1)]

\* a.Join(b)
JoinCalls == [fn : {"Join"}, a : JoinMods, b : JoinMods]

\* the include patterns Watch is called with
WatchPatterns ==
    {<<"*", "*">>, PatJs, <<"x", "/", "*", "*">>, <<"l", "/", "*", "*">>}

\* the changeset a method is called on, and the changeset passed to Join
Receiver == [Changed |-> 1, Deleted |-> 2, Added |-> 3]
Argument == [Changed |-> 4, Deleted |-> 5, Added |-> 6]

\* calls on changesets in memory: Filter, normPaths and Join of the watcher, and
\* normPaths of devd's modd package with the watched directory x
MemCalls ==
    [fn : {"FilterOn"}, mem : [1..3 -> Slices(Names, 1)]]
    \cup [fn : {"normPathsOn"}, mem : [1..3 -> Slices(Paths, 1)]]
    \cup [fn : {"JoinOn"}, mem : [1..6 -> Slices(Names, 1)]]
    \cup [fn : {"moddNormPaths"}, mem : [1..3 -> Slices({PathXA, PathXa}, 1)]]
    \cup [fn : {"baseDirsOn"}, mem : [1..1 -> Slices(WatchPatterns, MaxPatterns)]]

\* the patterns of Find: the working directory, its directories x and xa, two
\* directories of x, and a directory outside the working directory
FindPatterns ==
    {BaseWd, BaseX, <<"x", "a", "/", "*", "*">>, <<"x", "/", "a", "/", "*", "*">>,
     <<"x", "/", "b", "/", "*", "*">>, <<"/", "s", "/", "*", "*">>}

\* AppendBaseDirs([]string{}, includePatterns)
AppendBaseDirsCalls ==
    [fn : {"AppendBaseDirs"}, patterns : Slices(FindPatterns, MaxPatterns)]

\* List(root, includePatterns, excludePatterns) with the working directory as root
ListCalls ==
    [fn : {"List"}, includes : Slices(WatchPatterns, MaxPatterns),
     excludes : {<<>>, ExcludeCss}]

Calls ==
    ListCalls \cup FilterFilesCalls \cup FilterCalls \cup FilesCalls \cup MatchAnyCalls
    \cup NormPathsCalls \cup JoinCalls \cup MemCalls \cup AppendBaseDirsCalls

InitCalls ==
    /\ call \in Calls
    /\ ret = Nil
    /\ lullTime = 0
    /\ lullLeft = lullTime
    /\ includes = IncludeAll
    /\ excludes = ExcludeCss
    /\ InitRunning

CallFilterFiles ==
    /\ call.fn = "filterFiles"
    /\ ret = Nil
    /\ ret' = [files |-> filterFiles(<<"/">>, call.files, call.excludes)]
    /\ UNCHANGED <<call, watchVars, reloadVars>>

CallFilter ==
    /\ call.fn = "Filter"
    /\ ret = Nil
    /\ ret' = Filter(call.mod, call.includes, call.excludes)
    /\ UNCHANGED <<call, watchVars, reloadVars>>

CallFiles ==
    /\ call.fn = "Files"
    /\ ret = Nil
    /\ ret' = Files(call.files, call.includes, call.excludes)
    /\ UNCHANGED <<call, watchVars, reloadVars>>

CallMatchAny ==
    /\ call.fn = "MatchAny"
    /\ ret = Nil
    /\ ret' = MatchAny(call.path, call.patterns)
    /\ UNCHANGED <<call, watchVars, reloadVars>>

CallNormPaths ==
    /\ call.fn = "normPaths"
    /\ ret = Nil
    /\ ret' = ModNormPathsBases(call.mod, call.bases)
    /\ UNCHANGED <<call, watchVars, reloadVars>>

CallJoin ==
    /\ call.fn = "Join"
    /\ ret = Nil
    /\ ret' = ModJoin(call.a, call.b)
    /\ UNCHANGED <<call, watchVars, reloadVars>>

CallFilterOn ==
    /\ call.fn = "FilterOn"
    /\ ret = Nil
    /\ ret' = FilterOn(call.mem, Receiver, IncludeAll, <<PatJs>>)
    /\ UNCHANGED <<call, watchVars, reloadVars>>

CallNormPathsOn ==
    /\ call.fn = "normPathsOn"
    /\ ret = Nil
    /\ ret' = normPathsOn(call.mem, Receiver, Root)
    /\ UNCHANGED <<call, watchVars, reloadVars>>

CallJoinOn ==
    /\ call.fn = "JoinOn"
    /\ ret = Nil
    /\ ret' = JoinOn(call.mem, Receiver, Argument)
    /\ UNCHANGED <<call, watchVars, reloadVars>>

CallModdNormPaths ==
    /\ call.fn = "moddNormPaths"
    /\ ret = Nil
    /\ ret' = moddModNormPaths(call.mem, Receiver, <<"x">>)
    /\ UNCHANGED <<call, watchVars, reloadVars>>

CallAppendBaseDirs ==
    /\ call.fn = "AppendBaseDirs"
    /\ ret = Nil
    /\ ret' = [bases |-> AppendBaseDirs(<<>>, call.patterns)]
    /\ UNCHANGED <<call, watchVars, reloadVars>>

CallList ==
    /\ call.fn = "List"
    /\ ret = Nil
    /\ ret' = List(Root, call.includes, call.excludes)
    /\ UNCHANGED <<call, watchVars, reloadVars>>

\* newincludes, paths := baseDirs(root, includes) in Watch and in List
CallBaseDirsOn ==
    /\ call.fn = "baseDirsOn"
    /\ ret = Nil
    /\ ret' = baseDirsOn(call.mem, 1, Root)
    /\ UNCHANGED <<call, watchVars, reloadVars>>

NextCalls ==
    \/ CallBaseDirsOn
    \/ CallList
    \/ CallAppendBaseDirs
    \/ CallFilterOn
    \/ CallNormPathsOn
    \/ CallJoinOn
    \/ CallModdNormPaths
    \/ CallJoin
    \/ CallNormPaths
    \/ CallFilterFiles
    \/ CallFilter
    \/ CallFiles
    \/ CallMatchAny

SpecCalls == InitCalls /\ [][NextCalls]_vars

(***************************************************************************)
(* SpecGlob: one call of doublestar.Match, or one call of filterFiles with *)
(* the exclude pattern of the README, "**.less".                           *)
(***************************************************************************)
\* the names Match is called with: at most MaxComponents components a, b or c
GlobNames ==
    {JoinSlash(cs) : cs \in UNION {[1..k -> {<<"a">>, <<"b">>, <<"c">>}] :
                                       k \in 1..MaxComponents}}

\* well-formed patterns: at most three components, each a name, ?, * or **
GlobComponents == {<<"a">>, <<"b">>, <<"c">>, <<"?">>, <<"*">>, <<"*", "*">>}
GlobPatterns == {JoinSlash(cs) : cs \in UNION {[1..k -> GlobComponents] : k \in 1..3}}

\* patterns that begin with a malformed construct: a class or a list of
\* alternatives that is not closed, a backslash at the end, an empty class, a
\* range without one of its ends
BadHead ==
    {<<"[">>, <<"[", "^">>, <<"[", "^", "b", "c">>, <<"{">>, <<"{", "a">>, <<"\\">>,
     <<"[", "]">>, <<"[", "]", "a", "]">>, <<"[", "-", "]">>, <<"[", "a", "-", "]">>,
     <<"[", "-", "a", "]">>, <<"[", "a", "-", "b", "-", "c", "]">>}

\* patterns with a malformed construct
BadPatterns ==
    BadHead
    \cup {<<"a">> \o bad : bad \in BadHead}
    \cup {<<"*", "*", "/">> \o bad : bad \in BadHead}
    \cup {<<"*">> \o bad : bad \in BadHead}
    \cup {PatAltOpen}

\* doublestar.Match(pattern, name)
MatchCalls == [fn : {"Match"}, pattern : GlobPatterns \cup BadPatterns, name : GlobNames]

\* the exclude pattern of the README
PatLess == <<"*", "*", ".", "l", "e", "s", "s">>

\* the paths of a style sheet in the served directory and two levels below it, and
\* of a script
UrlLess == <<"/", "x", ".", "l", "e", "s", "s">>
UrlDeepLess == <<"/", "a", "/", "b", "/", "x", ".", "l", "e", "s", "s">>
LessFiles == {UrlLess, UrlDeepLess, UrlJs}

\* filterFiles("/", files, ["**.less"], log)
LessCalls == [fn : {"filterFiles"}, files : Slices(LessFiles, MaxFiles), excludes : {<<PatLess>>}]

InitGlob ==
    /\ call \in MatchCalls \cup LessCalls
    /\ ret = Nil
    /\ lullTime = 0
    /\ lullLeft = lullTime
    /\ includes = IncludeAll
    /\ excludes = ExcludeCss
    /\ InitRunning

CallMatch ==
    /\ call.fn = "Match"
    /\ ret = Nil
    /\ ret' = Match(call.pattern, call.name)
    /\ UNCHANGED <<call, watchVars, reloadVars>>

NextGlob ==
    \/ CallMatch
    \/ CallFilterFiles

SpecGlob == InitGlob /\ [][NextGlob]_vars

(***************************************************************************)
(* SpecStart: Watch from its call on: it opens a subscription for every    *)
(* base directory, any of which may fail, starts its goroutine, and the    *)
(* watcher runs (Stop is not called; the lull time is below the second of  *)
(* the model's clock).  call holds the progress of Watch: paths, the       *)
(* number i of paths handled, and subs, the subscriptions open on evtch.   *)
(***************************************************************************)
WatchCalls ==
    {[fn |-> "Watch", includes |-> inc, paths |-> baseDirs(Root, inc).bases,
      i |-> 0, subs |-> <<>>] : inc \in Slices(WatchPatterns, MaxPatterns)}

InitStart ==
    /\ call \in WatchCalls
    /\ ret = Nil
    /\ lullTime = 0
    /\ lullLeft = lullTime
    /\ includes = baseDirs(Root, call.includes).newincludes
    /\ excludes = ExcludeCss
    /\ wpc = "new"
    /\ InitChannels

\* the subscription that fails is not opened, those open on evtch stay open
WatchOpenFailsKeep ==
    /\ call.fn = "Watch"
    /\ ret = Nil
    /\ call.i < Len(call.paths)
    /\ ret' = [w |-> FALSE, err |-> TRUE]
    /\ UNCHANGED <<call, watchVars, reloadVars>>

\* notify.Watch(filepath.Join(p, "..."), evtch, notify.All) returns nil
WatchOpen ==
    /\ call.fn = "Watch"
    /\ ret = Nil
    /\ call.i < Len(call.paths)
    /\ call' = [call EXCEPT !.i = call.i + 1,
                            !.subs = Append(call.subs, call.paths[call.i + 1])]
    /\ UNCHANGED <<ret, watchVars, reloadVars>>

\* notify.Watch returns an error: notify.Stop(evtch); return nil, fmt.Errorf(...)
WatchOpenFails ==
    /\ call.fn = "Watch"
    /\ ret = Nil
    /\ call.i < Len(call.paths)
    /\ evtStopped' = TRUE
    /\ call' = [call EXCEPT !.subs = <<>>]
    /\ ret' = [w |-> FALSE, err |-> TRUE]
    /\ UNCHANGED <<paramVars, evtch, nEvents, batchVars, wpc, b, oracle, lastSel, obsVars,
                   logVars, modch, stopVars, mu, rcvAfterStop, panicked, reloadVars>>

\* w := &Watcher{...}; go func() {...}(); return w, nil
WatchGo ==
    /\ call.fn = "Watch"
    /\ ret = Nil
    /\ call.i = Len(call.paths)
    /\ ret' = [w |-> TRUE, err |-> FALSE]
    /\ wpc' = "select"
    /\ UNCHANGED <<call, paramVars, evtVars, batchVars, b, oracle, lastSel, obsVars,
                   logVars, modch, stopVars, mu, rcvAfterStop, panicked, reloadVars>>

\* an open subscription delivers a raw event
NotifyOpened ==
    /\ call.subs # <<>>
    /\ Notify

NextStart ==
    \/ WatchOpen
    \/ WatchOpenFails
    \/ WatchGo
    \/ NotifyOpened
    \/ BatchEvent
    \/ BatchLull
    \/ WatchLoop
    \/ SendLock
    \/ SendPut
    \/ Recv

SpecStart == InitStart /\ [][NextStart]_vars

(***************************************************************************)
(* SpecReload: the watcher of a route with livereload behind it.  The      *)
(* goroutine of Route.Watch receives the changesets and forwards their     *)
(* paths on ch, and Server.Watch turns every list into a command.          *)
(***************************************************************************)
\* the capacity of the channel WatchRoutes makes for the reloader
ChCap == 1

\* strings.HasSuffix
HasSuffix(str, suffix) ==
    Len(str) >= Len(suffix) /\ Drop(str, Len(str) - Len(suffix)) = suffix

\* the command is css when some path is a style sheet
ReloadAny(paths) ==
    IF \E i \in 1..Len(paths) : HasSuffix(paths[i], <<".", "c", "s", "s">>)
    THEN "css" ELSE "page"

\* Server.Reload: the command it sends on s.broadcast
RECURSIVE Reload(_)
Reload(paths) ==
    IF paths = <<>> THEN "css"
    ELSE IF ~ HasSuffix(Head(paths), <<".", "c", "s", "s">>) THEN "page"
    ELSE Reload(Tail(paths))

\* for mod := range modchan { if !mod.Empty() { ... mod.All() } }
RouteRecv ==
    /\ panicked = "none"
    /\ fwd = <<>>
    /\ modch # <<>>
    /\ modch' = Tail(modch)
    /\ delivered' = Append(delivered, Head(modch))
    /\ fwd' = IF ~ Empty(Head(modch)) THEN <<All(Head(modch))>> ELSE <<>>
    /\ UNCHANGED <<paramVars, callVars, evtVars, batchVars, wpc, b, oracle, lastSel, obsVars,
                   resolved, carried, stopVars, mu, rcvAfterStop, panicked, ch, eis,
                   broadcast>>

\* ch <- mod.All()
RoutePut ==
    /\ fwd # <<>>
    /\ Len(ch) < ChCap
    /\ ch' = Append(ch, Head(fwd))
    /\ fwd' = <<>>
    /\ UNCHANGED <<watchVars, callVars, eis, broadcast>>

\* Server.Watch: for ei := range ch { if len(ei) > 0 { s.Reload(ei) } }
ServerWatch ==
    /\ ch # <<>>
    /\ ch' = Tail(ch)
    /\ eis' = Append(eis, Head(ch))
    /\ broadcast' = IF Len(Head(ch)) > 0 THEN Append(broadcast, Reload(Head(ch)))
                    ELSE broadcast
    /\ UNCHANGED <<watchVars, callVars, fwd>>

\* devd -l: every file is watched, nothing is excluded
InitReload ==
    /\ lullTime = 0
    /\ lullLeft = lullTime
    /\ includes = IncludeAll
    /\ excludes = <<>>
    /\ InitRun

NextReload ==
    \/ NotifyCycles
    \/ BatchEvent
    \/ BatchLull
    \/ WatchLoop
    \/ SendLock
    \/ SendPut
    \/ RouteRecv
    \/ RoutePut
    \/ ServerWatch

SpecReload == InitReload /\ [][NextReload]_vars

(***************************************************************************)
(* SpecFair: the scheduler runs every goroutine that can take a step, and  *)
(* a goroutine waiting in Lock gets the mutex (sync.Mutex hands the lock   *)
(* to a starving waiter).  Calling Stop, receiving from the output channel *)
(* and the arrival of events are left to the environment.                  *)
(***************************************************************************)
Fairness ==
    /\ WF_vars(BatchEvent)
    /\ WF_vars(BatchLull)
    /\ WF_vars(BatchMax)
    /\ WF_vars(WatchLoop)
    /\ SF_vars(SendLock)
    /\ WF_vars(SendPut)
    /\ \A s \in Stoppers :
          WF_vars(NotifyStop(s) \/ StopClose(s) \/ StopSet(s) \/ StopUnlock(s))

SpecFair == Spec /\ Fairness

(***************************************************************************)
(* SpecStall: a watcher whose Stop is called.  The scheduler runs every    *)
(* goroutine that can take a step, and a goroutine that has called Stop    *)
(* and waits in Lock gets the mutex when it is free again and again.  The  *)
(* consumer of the output channel may stop receiving at any time.          *)
(***************************************************************************)
NextStall ==
    \/ NotifyCycles
    \/ BatchEvent
    \/ BatchLull
    \/ WatchLoop
    \/ SendLock
    \/ SendPut
    \/ Stop
    \/ Recv

FairnessStall ==
    /\ WF_vars(BatchEvent)
    /\ WF_vars(BatchLull)
    /\ WF_vars(WatchLoop)
    /\ SF_vars(SendLock)
    /\ WF_vars(SendPut)
    /\ SF_vars(\E s \in Stoppers : StopLock(s))
    /\ \A s \in Stoppers :
          WF_vars(NotifyStop(s) \/ StopClose(s) \/ StopSet(s) \/ StopUnlock(s))

SpecStall == InitReload /\ [][NextStall]_vars /\ FairnessStall

(***************************************************************************)
(* Properties.                                                             *)
(***************************************************************************)
\* the files a Mod names
ModPaths(m) == Range(m.Added) \cup Range(m.Changed) \cup Range(m.Deleted)

\* the paths the observer saw an event of kind k for
Seen(k) == {e.path : e \in {x \in received : x.kind = k}}

\* C1, as the specification states it: every receive performed after Stop has
\* returned reports "closed"; none yields a changeset.
ReceiveAfterStopReportsClosed == rcvAfterStop \in {"none", "closed"}

\* C1, amended: once Stop has returned the output channel is closed, and on a
\* closed channel nothing is sent any more: its content only shrinks, one receive
\* at a time, so that a receive performed after Stop returned never blocks and
\* yields one of the changesets buffered before the close (at most ModchCap of
\* them) or reports "closed".
NothingSentAfterStop ==
    [][/\ stopReturned => modClosed
       /\ modClosed => /\ modClosed'
                       /\ \/ modch' = modch
                          \/ modch # <<>> /\ modch' = Tail(modch)
       /\ Len(modch) <= ModchCap]_vars

\* a receive performed after Stop returned has reported "closed"
ReceivedClosedAfterStop == stopReturned /\ rcvAfterStop = "closed"

\* C2: whatever the number of Stop calls and their interleaving with send, the
\* output channel is closed at most once, exactly once when a Stop has returned,
\* and the program never panics closing a closed channel or sending on one.
StopClosesOnce ==
    /\ panicked = "none"
    /\ closeCount <= 1
    /\ closed => closeCount = 1 /\ modClosed
    /\ stopReturned => closed
    /\ wpc = "send_put" => ~ modClosed

\* after a Stop has returned, another call of Stop is inside its critical section
\* while the watch goroutine waits in send for the mutex
SecondStopDuringSend ==
    /\ stopReturned
    /\ wpc = "send_lock"
    /\ \E s \in Stoppers : spc[s] = "unlock"

\* C3, as the specification states it: a batch call whose lull timer has never
\* expired (the stream of events has had no lull) does not run longer than maxTime.
ReturnsWithinMaxTime == (wpc = "select" /\ ~ lulled) => elapsed <= MaxLullWait

\* C4, as the specification states it: a batch call that has received an event
\* is not running any more once lullTime has passed since the last event.
ReturnsAtLullExpiry == (wpc = "select" /\ received # {}) => sinceLast <= lullTime

\* C5: batch returns only when the lull timer or the max timer has fired, never
\* less than lullTime after the last event it received, and the one changeset it
\* returns is the resolution of all the events received since it was called.
BurstCoalesced ==
    wpc = "ret" =>
        /\ b # Nil
        /\ lastSel \in {"lull", "max"}
        /\ sinceLast >= lullTime
        /\ b = mkmod(oracle, Seen("Create"), Seen("Remove"), Seen("Write"),
                     Seen("Rename"))

\* batch has returned the changeset of a burst of events on both files
BurstReturned ==
    /\ wpc = "ret"
    /\ Cardinality(received) >= 2
    /\ ModPaths(b) = Paths

\* C6: the receive of a nil event makes batch return nil without resolving the
\* cycle; the loop then ends without another call of batch, and once it has ended
\* nothing is sent on the output channel.
NilEndsLoop ==
    [][/\ (wpc = "select" /\ evtStopped /\ evtch = <<>> /\ lastSel' = "nil")
            => (wpc' = "ret" /\ b' = Nil /\ oracle' = oracle /\ modch' = modch)
       /\ (wpc = "ret" /\ b = Nil /\ wpc' # wpc)
            => (wpc' = "done" /\ modch' = modch)
       /\ wpc = "done"
            => (wpc' = "done" /\ Len(modch') <= Len(modch))]_vars

\* batch has returned nil in a cycle that had accumulated events
NilWithPendingEvents == wpc = "ret" /\ b = Nil /\ Touched # {}

SentNonEmpty ==
    \A m \in Range(modch) \cup (IF wpc \in {"send_lock", "send_put"} THEN {b} ELSE {}) :
        /\ ~ Empty(m)
        /\ \A path \in ModPaths(m) :
              /\ ~ IsAbs(path)
              /\ MatchAny(path, includes).m
              /\ ~ MatchAny(path, excludes).m

\* a changeset is on the output channel
ChangesetSent == modch # <<>> /\ ~ Empty(modch[1])

\* C9: a path with a Create event in the cycle that does not exist when the cycle
\* is resolved is in none of Added, Changed, Deleted.
TransientEliminated ==
    wpc = "ret" =>
        \A path \in Seen("Create") \ oracle : path \notin ModPaths(b)

\* a file was created and removed in the cycle and does not exist at resolution
TransientResolved ==
    /\ wpc = "ret"
    /\ FileCss \in (Seen("Create") \cap Seen("Remove")) \ oracle

InAdded(path) == path \in Range(b.Added)
InChanged(path) == path \in Range(b.Changed)
InDeleted(path) == path \in Range(b.Deleted)

\* batch has returned a changeset
Returned == wpc = "ret" /\ b # Nil

\* C11: a path with a Create and a Write event in the cycle that exists at
\* resolution is in Added and not in Changed (nor in Deleted).
AddSupersedesChange ==
    Returned =>
        \A path \in Seen("Create") \cap Seen("Write") \cap oracle :
            InAdded(path) /\ ~ InChanged(path) /\ ~ InDeleted(path)

\* a file was created and written in the cycle and exists at resolution
CreatedAndWritten ==
    /\ Returned
    /\ received = {[kind |-> "Create", path |-> FileCss],
                   [kind |-> "Write", path |-> FileCss]}
    /\ oracle = {FileCss}
    /\ b = [Added |-> <<FileCss>>, Changed |-> <<>>, Deleted |-> <<>>]

\* C12: a path with a Remove event that exists at resolution is not in Deleted;
\* with a Create event in the cycle it is in Added; and the changeset is the one
\* the cycle would have given without that Remove event (the path stays in the
\* lists its other events put it in).
StaleRemovalDropped ==
    Returned =>
        \A path \in Seen("Remove") \cap oracle :
            /\ ~ InDeleted(path)
            /\ path \in Seen("Create") => InAdded(path)
            /\ b = mkmod(oracle, Seen("Create"), Seen("Remove") \ {path},
                         Seen("Write"), Seen("Rename"))

\* two stale removals: of a file also created, and of a file also written
StaleRemovals ==
    /\ Returned
    /\ oracle = Paths
    /\ FileCss \in Seen("Remove") \cap Seen("Create")
    /\ FileJs \in (Seen("Remove") \cap Seen("Write")) \ (Seen("Create") \cup Seen("Rename"))
    /\ InAdded(FileCss)
    /\ InChanged(FileJs)

\* C13: a path with a Write and a Remove event and no Create event in the cycle
\* that does not exist at resolution is in Deleted, and in no other list.
WriteRemoveIsDeleted ==
    Returned =>
        \A path \in (Seen("Write") \cap Seen("Remove")) \ (Seen("Create") \cup oracle) :
            InDeleted(path) /\ ~ InChanged(path) /\ ~ InAdded(path)

\* a file was written and removed in the cycle and does not exist at resolution
WrittenAndRemoved ==
    /\ Returned
    /\ received = {[kind |-> "Write", path |-> FileCss],
                   [kind |-> "Remove", path |-> FileCss]}
    /\ FileCss \notin oracle
    /\ b = [Added |-> <<>>, Changed |-> <<>>, Deleted |-> <<FileCss>>]

\* C14: Added, Changed and Deleted of a returned changeset are pairwise disjoint.
ListsDisjoint ==
    Returned =>
        /\ Range(b.Added) \cap Range(b.Changed) = {}
        /\ Range(b.Added) \cap Range(b.Deleted) = {}
        /\ Range(b.Changed) \cap Range(b.Deleted) = {}

\* a cycle in which one file had events of all four kinds and exists, the other
\* had events of all four kinds and does not
AllKindsResolved ==
    /\ Returned
    /\ received = Events
    /\ oracle = {FileJs}
    /\ ~ Empty(b)

\* a list of paths is strictly increasing in Go's string order
StrictlySorted(l) == \A i, j \in 1..Len(l) : i < j => StrLess(l[i], l[j])

\* C15: each list of a returned changeset is sorted and has no duplicate, also
\* when the cycle received the same event more than once.
ListsSorted ==
    Returned =>
        /\ StrictlySorted(b.Added)
        /\ StrictlySorted(b.Changed)
        /\ StrictlySorted(b.Deleted)

\* a cycle that received some event twice returned a list of two paths
TwoSortedAfterDuplicate ==
    /\ Returned
    /\ dup
    /\ b.Added = <<FileCss, FileJs>>

\* what a second run of mkmod on the maps of batch, as the first run left them,
\* returns
mkmodAgain == mkmod(oracle, added, removed, changed, renamed)

\* C16, as the specification states it: a second run of mkmod on the same maps
\* returns the changeset the first run returned.
ResolutionIdempotent == Returned => mkmodAgain = b

\* C16, amended: mkmod writes to the maps it is given.  A run on copies of the
\* accumulated sets returns the same changeset again; a second run on the maps
\* themselves returns the same Added and Changed, and a Deleted that holds, on top
\* of the first run's, exactly the paths with a Create and a Rename event that do
\* not exist (the first run struck them everywhere, the second finds them in
\* renamed alone).
ResolutionOnSameMaps ==
    Returned =>
        /\ b = mkmod(oracle, Seen("Create"), Seen("Remove"), Seen("Write"),
                     Seen("Rename"))
        /\ mkmodAgain.Added = b.Added
        /\ mkmodAgain.Changed = b.Changed
        /\ Range(b.Deleted) \subseteq Range(mkmodAgain.Deleted)
        /\ Range(mkmodAgain.Deleted) \ Range(b.Deleted)
              = (Seen("Create") \cap Seen("Rename")) \ oracle

\* a file created and renamed in the cycle does not exist at resolution: the
\* first run reports nothing, a second run on the same maps reports it Deleted
SecondRunDiffers ==
    /\ Returned
    /\ received = [kind : {"Create", "Rename"}, path : {FileCss}]
    /\ oracle = {}
    /\ Empty(b)
    /\ mkmodAgain.Deleted = <<FileCss>>

\* C17: the changeset returned is determined by the set of events received in
\* the cycle and the existence of the files: whatever the order in which the
\* events arrived and whatever the order in which each range loop of mkmod visits
\* the keys of its map, the changeset is the same.
OrderIndependent ==
    Returned =>
        \A o1, o2, o3 \in RangeOrders :
            b = mkmodIn(o1, o2, o3, oracle, Seen("Create"), Seen("Remove"),
                        Seen("Write"), Seen("Rename"))

\* every map mkmod ranges over has two keys, one that exists and one that does not
TwoKeysInEveryMap ==
    /\ Returned
    /\ Seen("Create") = Paths
    /\ Seen("Remove") = Paths
    /\ Seen("Rename") = Paths
    /\ Seen("Write") = Paths
    /\ oracle = {FileCss}

\* the paths of a set of events
EventPaths(evts) == {e.path : e \in evts}

\* C18: a call of batch starts with empty maps: while batch runs its maps hold
\* the events received since this call and nothing else, and every path of the
\* changeset it returns had an event received during this call.
CycleStartsEmpty ==
    /\ wpc = "select" =>
          /\ added = Seen("Create")
          /\ removed = Seen("Remove")
          /\ changed = Seen("Write")
          /\ renamed = Seen("Rename")
    /\ Returned => ModPaths(b) \subseteq EventPaths(received)

\* an earlier cycle reported FileJs as added; a later cycle, which received a
\* Write event for it, reports it as changed and not as added again
LaterCycleOwnEvents ==
    /\ Returned
    /\ resolved # <<>>
    /\ resolved[1].Added = <<SubSeq(FileJs, Len(Root) + 2, Len(FileJs))>>
    /\ received = {[kind |-> "Write", path |-> FileJs]}
    /\ b = [Added |-> <<>>, Changed |-> <<FileJs>>, Deleted |-> <<>>]

\* the event e is in the map of its kind after the step
RecordedNext(e) ==
    /\ e.kind = "Create" => e.path \in added'
    /\ e.kind = "Remove" => e.path \in removed'
    /\ e.kind = "Write" => e.path \in changed'
    /\ e.kind = "Rename" => e.path \in renamed'

\* C19: the event channel changes in two ways only: the subscription appends an
\* event, or batch, blocked in its select, takes the first event off it and
\* records it in the maps of the running call, which keep the events recorded
\* before.  So an event that arrives while the goroutine is outside the select
\* (resolving, normalising, filtering, sending) stays in the channel until the
\* next call of batch receives it, and no event is received twice.
EventsConsumedOnce ==
    [][\/ evtch' = evtch /\ received' \subseteq received
       \/ /\ \E e \in Events : evtch' = Append(evtch, e)
          /\ received' = received
          /\ UNCHANGED accVars
       \/ /\ evtch # <<>>
          /\ evtch' = Tail(evtch)
          /\ wpc = "select"
          /\ wpc' = "select"
          /\ received' = received \cup {Head(evtch)}
          /\ RecordedNext(Head(evtch))
          /\ added \subseteq added'
          /\ removed \subseteq removed'
          /\ changed \subseteq changed'
          /\ renamed \subseteq renamed']_vars

\* an event was waiting in the event channel while the loop handled the changeset
\* batch had returned, a changeset has been handed to send, and the call of batch
\* that followed has received an event
LateEventTakenUp ==
    /\ wpc = "select"
    /\ carried
    /\ received # {}
    /\ resolved # <<>>

\* the Mod the goroutine is sending
InSend == IF wpc \in {"send_lock", "send_put"} THEN <<b>> ELSE <<>>

\* C20: the Mods received from the output channel, followed by those buffered in
\* it and the one being sent, are the Mods of the resolved cycles in the order
\* in which the cycles completed.
DeliveredInOrder == delivered \o modch \o InSend = resolved

\* two different changesets were received
TwoDelivered == Len(delivered) = 2 /\ delivered[1] # delivered[2]

\* matching some path of the changeset r, normalised, against the patterns of the
\* watcher fails with a pattern error
FilterFails(r) ==
    \E path \in ModPaths(ModNormPaths(r, Root).mod) : File(path, includes, excludes).err

\* C21: when batch has returned a changeset that is not empty and the filter hits
\* a pattern error on it, the loop goes on to send a changeset that is not empty
\* (the result as it is, unfiltered or partially filtered): the cycle is not dropped.
FilterErrorKeepsCycle ==
    [][(wpc = "ret" /\ wpc' # "ret" /\ b # Nil /\ ~ Empty(b) /\ FilterFails(b))
          => (wpc' = "send_lock" /\ ~ Empty(b'))]_vars

\* the call under check has returned
Called(fn) == call # Nil /\ call.fn = fn /\ ret # Nil

\* the file as filterFiles matches it
RelFile(file) == TrimPrefix(file, <<"/">>)

\* matching the pattern fails with ErrBadPattern for some file name
Malformed(pattern) == \E file \in UrlFiles : Match(pattern, RelFile(file)).err

FilterSurfacesError ==
    Called("Filter") =>
        IF \E path \in ModPaths(call.mod) : File(path, call.includes, call.excludes).err
        THEN ret.err /\ ret.mod = Nil
        ELSE /\ ~ ret.err
             /\ ret.mod.Changed = Files(call.mod.Changed, call.includes, call.excludes).files
             /\ ret.mod.Deleted = Files(call.mod.Deleted, call.includes, call.excludes).files
             /\ ret.mod.Added = Files(call.mod.Added, call.includes, call.excludes).files

\* some pattern of the list matches the path
SomeMatches(path, patterns) == \E i \in 1..Len(patterns) : Match(patterns[i], path).m

\* C24: filter.Files keeps, in order, exactly the paths that at least one include
\* pattern matches and that no exclude pattern matches (so an excluded path is
\* dropped whatever the include patterns, and nothing is kept without an include
\* pattern).
KeptIffIncludedNotExcluded ==
    Called("Files") =>
        ret.files = SelectSeq(call.files, LAMBDA f :
                        SomeMatches(f, call.includes) /\ ~ SomeMatches(f, call.excludes))

\* the first pattern of the list whose match against the path matches or fails
\* (0 when there is none)
FirstDecisive(path, patterns) ==
    LET D == {i \in 1..Len(patterns) :
                 Match(patterns[i], path).m \/ Match(patterns[i], path).err}
    IN  IF D = {} THEN 0 ELSE CHOOSE i \in D : \A j \in D : i <= j

\* C25: going through the list in order, MatchAny returns (true, nil) at the first
\* pattern that matches the path and (false, error) at the first pattern whose
\* match fails, whichever comes first, and (false, nil) when there is neither: it
\* returns true if and only if some pattern matches and no pattern before it fails.
MatchAnyFirstDecides ==
    Called("MatchAny") =>
        LET i == FirstDecisive(call.path, call.patterns)
        IN  /\ ret.m <=> (i # 0 /\ Match(call.patterns[i], call.path).m)
            /\ ret.err <=> (i # 0 /\ Match(call.patterns[i], call.path).err)
            /\ ret.err => ~ ret.m

\* MatchAny has returned the error of the first pattern although the second
\* pattern matches the path
ErrorBeforeMatch ==
    /\ Called("MatchAny")
    /\ call.patterns = <<PatOpen, <<"*", "*">> >>
    /\ ret = ErrBadPattern

\* the positions of the bases whose directory the path lies under
BasesOver(bases, abspath) ==
    {k \in 1..Len(bases) : isUnder(Abs(BaseDir(bases[k])), abspath)}

\* the directory of the first base the path lies under
FirstBase(bases, abspath) ==
    BaseDir(bases[CHOOSE k \in BasesOver(bases, abspath) :
                      \A j \in BasesOver(bases, abspath) : k <= j])

\* the fields of a changeset
Fields == {"Added", "Changed", "Deleted"}

JoinIsSortedUnion ==
    Called("Join") =>
        /\ \A f \in Fields :
              /\ Range(ret[f]) = Range(call.a[f]) \cup Range(call.b[f])
              /\ StrictlySorted(ret[f])
        /\ ret = ModJoin(call.b, call.a)
        /\ \A c \in SmallMods : ModJoin(ret, c) = ModJoin(call.a, ModJoin(call.b, c))
        /\ call.a = call.b =>
              \A f \in Fields : ret[f] = SortStrings(Range(call.a[f]))

\* Join has merged a list that is not sorted and holds a name twice with a list
\* that holds another name
JoinedUnsorted ==
    /\ Called("Join")
    /\ call.a.Changed = << <<"b", ".", "j", "s">>, <<"b", ".", "j", "s">> >>
    /\ call.b.Changed = << <<"a">> >>
    /\ ret.Changed = << <<"a">>, <<"b", ".", "j", "s">> >>

\* the call has left every list that was in memory as it was, and has returned a
\* changeset whose lists are new
CopiedOnTransform ==
    /\ \A a \in 1..Len(call.mem) : ret.mem[a] = call.mem[a]
    /\ \A f \in Fields : ret.mod[f] \notin 1..Len(call.mem)

\* C28, as stated: Filter, normPaths and Join, in every version of the code, return
\* a new changeset and leave the lists of the changesets they were applied to
\* unchanged.
ChangesetsImmutable ==
    (call # Nil /\ call.fn \in {"FilterOn", "normPathsOn", "JoinOn", "moddNormPaths"}
     /\ ret # Nil) => CopiedOnTransform

\* C28, amended: Filter, normPaths and Join of the watcher return a new changeset
\* and leave the lists they were applied to unchanged; normPaths of devd's modd
\* package returns no changeset and rewrites the lists of its changeset in place.
WatcherChangesetsImmutable ==
    /\ (call # Nil /\ call.fn \in {"FilterOn", "normPathsOn", "JoinOn"} /\ ret # Nil)
          => CopiedOnTransform
    /\ Called("moddNormPaths") =>
          /\ Len(ret.mem) = Len(call.mem)
          /\ ret.mod = Receiver
          /\ \A a \in 1..Len(call.mem) :
                ret.mem[a] = [i \in 1..Len(call.mem[a]) |->
                                 Join(<<"x">>, Rel(Abs(<<"x">>), call.mem[a][i]).path)]

\* normPaths of the watcher has returned the relative path of a file in a new list
\* and left the absolute path in the list it was called on
NormalisedCopy ==
    /\ Called("normPathsOn")
    /\ call.mem[Receiver.Changed] = <<FileJs>>
    /\ ret.mem[Receiver.Changed] = <<FileJs>>
    /\ ret.mem[ret.mod.Changed] = << <<"b", ".", "j", "s">> >>

\* C29: when opening a subscription has failed, Watch has returned an error and no
\* Watcher, no subscription is left open on the event channel (notify.Stop was
\* called), the goroutine that runs batch was not started, and nothing is or was
\* sent on the output channel.
FailedWatchStartsNothing ==
    (call # Nil /\ call.fn = "Watch" /\ ret # Nil /\ ret.err) =>
        /\ ~ ret.w
        /\ call.subs = <<>>
        /\ evtStopped
        /\ wpc = "new"
        /\ b = Nil
        /\ modch = <<>>
        /\ ~ modClosed

\* Watch has failed on its second base directory, after the subscription for the
\* first one was opened
FailedOnSecondBase ==
    /\ call # Nil
    /\ call.fn = "Watch"
    /\ ret # Nil
    /\ ret.err
    /\ call.i = 1
    /\ Len(call.paths) = 2

\* C30: the subscriptions Watch has opened are for distinct directories: two
\* include patterns that resolve to the same base directory lead to one
\* subscription for it.
OneSubscriptionPerBase ==
    (call # Nil /\ call.fn = "Watch") =>
        \A i, j \in 1..Len(call.subs) : i # j => call.subs[i] # call.subs[j]

\* the path ends in .less
HasLessSuffix(path) ==
    Len(path) >= 5 /\ SubSeq(path, Len(path) - 4, Len(path)) = <<".", "l", "e", "s", "s">>

\* C31: with the exclude pattern "**.less", filterFiles returns no path that ends
\* in .less, whatever its depth below the served directory, and so no such path
\* reaches the reloader.
LessNeverReloads ==
    (Called("filterFiles") /\ call.excludes = <<PatLess>>) =>
        \A i \in 1..Len(ret.files) : ~ HasLessSuffix(ret.files[i])

\* the commands Server.Watch is to send for the lists it received
RECURSIVE Commands(_)
Commands(lists) ==
    IF lists = <<>> THEN <<>>
    ELSE (IF Head(lists) = <<>> THEN <<>>
          ELSE IF \A i \in 1..Len(Head(lists)) :
                      HasSuffix(Head(lists)[i], <<".", "c", "s", "s">>)
          THEN <<"css">> ELSE <<"page">>) \o Commands(Tail(lists))

\* C32: the commands broadcast are, in order, one for every non-empty list the
\* livereload Watch loop has received and none for an empty one: "css" when every
\* path of the list ends in .css, "page" otherwise.
OneCommandPerList ==
    /\ broadcast = Commands(eis)
    /\ \A i \in 1..Len(broadcast) : broadcast[i] \in {"css", "page"}

\* a list of style sheets and a list with a script were received
CssThenPage ==
    /\ Len(eis) = 2
    /\ broadcast = <<"css", "page">>

\* C38: every command broadcast is for a received changeset that has an added or a
\* changed path: a changeset with deleted paths only is forwarded as the empty list,
\* for which the livereload Watch loop calls no Reload.
DeletedOnlyNoReload ==
    /\ eis \o ch \o fwd =
           [i \in 1..Len(delivered) |->
               IF delivered[i].Added = <<>> /\ delivered[i].Changed = <<>> THEN <<>>
               ELSE SortStrings(Range(delivered[i].Added) \cup Range(delivered[i].Changed))]
    /\ Len(broadcast) = Cardinality({j \in 1..Len(eis) : eis[j] # <<>>})

\* a changeset of deleted paths only was published and forwarded, and the livereload
\* Watch loop received the empty list and sent no command
DeletedOnlyForwarded ==
    /\ Len(delivered) = 1
    /\ delivered[1].Deleted # <<>>
    /\ delivered[1].Added = <<>>
    /\ delivered[1].Changed = <<>>
    /\ eis = << <<>> >>
    /\ broadcast = <<>>

\* one pattern component against one name component of a single character
RefComponent(pc, nc) ==
    IF pc = <<"*">> THEN TRUE
    ELSE IF pc = <<"?">> THEN Len(nc) = 1
    ELSE pc = nc

\* the pattern components pcs match the name components ncs: a ** component
\* stands for any number of name components, and for at least one when it is the
\* last component of the pattern; every other component stands for exactly one
RECURSIVE RefMatch(_, _)
RefMatch(pcs, ncs) ==
    IF pcs = <<>> THEN ncs = <<>>
    ELSE IF Head(pcs) = <<"*", "*">>
    THEN IF Tail(pcs) = <<>> THEN ncs # <<>>
         ELSE \E k \in 0..Len(ncs) : RefMatch(Tail(pcs), Drop(ncs, k))
    ELSE /\ ncs # <<>>
         /\ RefComponent(Head(pcs), Head(ncs))
         /\ RefMatch(Tail(pcs), Tail(ncs))

\* C33: for a pattern whose components are names, ?, * and **, Match returns no
\* error and is true exactly when the name components can be divided among the
\* pattern components, a ** taking zero or more whole components (one or more at
\* the end of the pattern) and every other component exactly one, so that * and ?
\* never match across a '/'.  In particular Match("**/c", "c"), Match("a/**/b",
\* "a/b") and Match("a/**", "a/b/c") are true and Match("a/**", "a") is false.
DoubleStarSpansComponents ==
    /\ (Called("Match") /\ call.pattern \in GlobPatterns) =>
           /\ ~ ret.err
           /\ ret.m = RefMatch(SplitSlash(call.pattern), SplitSlash(call.name))
    /\ Match(<<"*", "*", "/", "c">>, <<"c">>) = MTrue
    /\ Match(<<"a", "/", "*", "*", "/", "b">>, <<"a", "/", "b">>) = MTrue
    /\ Match(<<"a", "/", "*", "*">>, <<"a", "/", "b", "/", "c">>) = MTrue
    /\ Match(<<"a", "/", "*", "*">>, <<"a">>) = MFalse

\* Match("**/c", "a/b/c") has returned true: the ** took two components
DoubleStarTookTwo ==
    /\ Called("Match")
    /\ call.pattern = <<"*", "*", "/", "c">>
    /\ call.name = <<"a", "/", "b", "/", "c">>
    /\ ret = MTrue

EqualOrUnder(a, c) ==
    \/ Abs(c) = Abs(a)
    \/ Abs(a) = <<"/">>
    \/ HasPrefix(Abs(c), Abs(a) \o <<"/">>)

\* C39: the list AppendBaseDirs returns for an empty list and the patterns is
\* minimal and covers the patterns: no directory of the list is equal to or under
\* another one, and the base directory of every pattern is equal to or under a
\* directory of the list.
BaseDirsMinimalCover ==
    Called("AppendBaseDirs") =>
        /\ \A i, j \in 1..Len(ret.bases) :
               i # j => ~ EqualOrUnder(ret.bases[i], ret.bases[j])
        /\ \A k \in 1..Len(call.patterns) :
               \E i \in 1..Len(ret.bases) :
                   EqualOrUnder(ret.bases[i], BaseDir(call.patterns[k]))

\* the regular files on disk, relative to the root, that some include pattern and
\* no exclude pattern matches
Listed(includePatterns, excludePatterns) ==
    {rel \in {Rel(Root, f).path : f \in Paths} :
        /\ \E i \in 1..Len(includePatterns) : Match(includePatterns[i], rel).m
        /\ \A i \in 1..Len(excludePatterns) : ~ Match(excludePatterns[i], rel).m}

\* C35: List returns, relative to the root and in lexicographic order, each once,
\* the regular files on disk that some include pattern and no exclude pattern
\* matches.
ListExhaustiveSorted ==
    Called("List") =>
        /\ ~ ret.err
        /\ ret.paths = SortStrings(Listed(call.includes, call.excludes))

\* C36: a call of Stop returns: the goroutine that calls Stop gets the lock, closes
\* the channel and returns, also when the watch goroutine is in send with the
\* output channel full and nothing receives from it.
StopAlwaysReturns == <>stopReturned

\* C37: with the oracle's answers fixed for the resolution, every path in Added of
\* the changeset batch returns exists and every path in Deleted does not exist,
\* whatever events the cycle received.
AddedExistDeletedGone ==
    Returned =>
        /\ Range(b.Added) \subseteq oracle
        /\ Range(b.Deleted) \cap oracle = {}

\* a cycle with a Create and a Remove event for the file that exists and a Remove
\* event for the file that does not: the first is in Added, the second in Deleted
CreatedRemovedResolved ==
    /\ Returned
    /\ oracle = {FileJs}
    /\ received = {[kind |-> "Create", path |-> FileJs], [kind |-> "Remove", path |-> FileJs],
                   [kind |-> "Remove", path |-> FileCss]}
    /\ b.Added = <<FileJs>>
    /\ b.Deleted = <<FileCss>>

\* C40: after baseDirs, as Watch and List call it on the include list of their
\* caller, the caller's list holds the patterns it held before the call.
CallerPatternsUnchanged ==
    Called("baseDirsOn") => ret.mem[1] = call.mem[1]
====
